---- MODULE Spec2Model ----
(***************************************************************************)
(* Kama_memoryPool (MemoryPool v1, step 3): the per-size-class pool        *)
(* (chunk list, bump cursor, lock-free free-stack) and the HashBucket      *)
(* router on top of it.  Addresses are natural numbers, 0 is nullptr.      *)
(* Memory is a map from the address of a word (a Slot::next, a chunk       *)
(* header) to the word stored there.                                       *)
(***************************************************************************)
EXTENDS Integers, Naturals, Sequences, FiniteSets, Bags, TLC

\* ---------------------------------------------------------------- constants

MEMORY_POOL_NUM == 64
SLOT_BASE_SIZE == 8
MAX_SLOT_SIZE == 512
\* sizeof(Slot) == sizeof(Slot*) on an LP64 build: one std::atomic<Slot*>.
SizeofSlot == 8
\* Default argument of MemoryPool::MemoryPool.
DefaultBlockSize == 4096
\* Alignment of the storage operator new returns (__STDCPP_DEFAULT_NEW_ALIGNMENT__).
NewAlign == 16
\* Lowest address operator new hands out.
HeapBase == 32

\* ------------------------------------------------------------------- bounds

\* Threads of a run (THREAD_COUNT is 8 in the concurrency test, nworks 4 in the
\* benchmark).
NThreads == 2
\* Iterations of each test thread (OPS_PER_THREAD is 1000 in the source).
TestOps == 3
\* Addresses one caller holds at a time.
MaxHeld == 3
\* Calls of useMemory/freeMemory in one run of the router by one thread.
MaxCalls == 4
\* Calls of useMemory/freeMemory in one run of the router by several threads.
MaxRaceCalls == 3
\* Largest size asked of the router.
MaxReq == 520
\* Chunks the system allocator hands out before it is exhausted.
MaxChunks == 3
\* Stores into held memory in a run that ends with the destruction of the pool
MaxWrites == 1
\* Calls of allocate/deallocate in one run of the threads that share a pool.
MaxShareCalls == 8
\* The same in a run in which the pool is destroyed while the threads run.
MaxTeardownCalls == 3
\* Calls of allocate in a run in which the threads only allocate.
MaxGrowCalls == 4
\* Calls of init/allocate/deallocate in a run that initialises a pool again.
MaxReinitCalls == 5
\* Calls of allocate/deallocate in a run in which only one thread deallocates.
MaxRecycleCalls == 10
\* Calls two threads make on the pool they share while one of them recycles
MaxAbaCalls == 8
\* MySharedPtr variables, MyWeakPtr variables and TestClass objects of a run
NShared == 2
NWeak == 1
MaxObjects == 2
\* MyUniquePtr variables of a run
NUnique == 2
\* Nodes the SLinkedLists of a run have allocated at a time
MaxNodes == 3
\* SLinkedList operations of a run
MaxListOps == 7

\* Chunk sizes given to the constructor of the stand-alone pool.
BlockSizes == {24, 48}
\* Slot sizes given to init() of the stand-alone pool.
SlotSizes == {4, 8, 12, 16}

NULL == 0
Threads == 1..NThreads
\* Owner of storage that useMemory got from operator new for an oversized request.
SysOwner == -1
\* Sizes the callers of the router ask for when several threads run.
ReqSizes == {8, 513}

VARIABLES
    mode,        \* the program: "pool" (one MemoryPool), "test" (TestConcurrency),
                 \* "router" (callers of HashBucket)
    nthreads,    \* threads of the run
    sizes,       \* the sizes the callers of the router ask for in this run
    pools,       \* pool id -> the fields of that MemoryPool object
    mem,         \* word address -> word (Slot::next of a slot, next of a chunk header)
    chunks,      \* storage obtained from operator new: [base, size, owner]
    th,          \* thread -> program counter and locals of the call in progress
    held,        \* thread -> bag of [addr, size] returned to it and not yet freed
    crashed,     \* the process died (segmentation fault, division by zero)
    table,       \* the static array of getMemoryPool: "none", "building", "built"
    constructed, \* how many times the constructors of that array have run
    inited,      \* initMemoryPool() has completed
    calls,       \* useMemory/freeMemory calls made so far
    lastAlloc,   \* history: the allocate() that returned last
    prevAlloc,   \* history: the allocate() before it, forgotten at a deallocate
    freed,       \* history: deallocated addresses not yet handed out again, newest first
    lastUse,     \* history: the useMemory() that returned last
    lastFree,    \* history: the freeMemory() that returned last
    ctors,       \* constructors of T that newElement<T> has run
    dtors,       \* destructors of T that deleteElement<T> has run
    objects,     \* addresses at which a T is alive
    before,      \* history: the counters and the held addresses when the last
                 \* newElement<T> was called
    released,    \* addresses a destructor of a pool gave to operator delete, in order
    wild,        \* a pool function ran on storage that is no element of the pool table
    sp,          \* MySharedPtr variable -> [live, ptr, control_block]
    wp,          \* MyWeakPtr variable or weak_member of an object -> [live, ptr, control_block]
    cbs,         \* ControlBlock -> [state, strong_count, weak_count]
    objs,        \* TestClass object -> [state, deleted]: deleted counts delete-expressions
    op,          \* history: the smart-pointer operation that ran last
    damaged,     \* a control block was read or deleted after its deletion
    up,          \* MyUniquePtr variable -> [live, ptr]
    uobjs,       \* TestClass object given to a MyUniquePtr -> [state, deleted]
    raw,         \* objects the program holds by a pointer that release() returned
    uop,         \* history: the MyUniquePtr operation that ran last
    lists        \* the SLinkedList objects and their nodes: [next, size, tail, live,
                 \* cons, ub, op]

conf == <<mode, nthreads, sizes>>
static == <<table, constructed, inited>>
hist == <<lastAlloc, prevAlloc, freed, lastUse, lastFree>>
typed == <<ctors, dtors, objects, before>>
outside == <<released, wild>>
unique == <<up, uobjs, raw, uop>>
smart == <<sp, wp, cbs, objs, op, damaged, unique, lists>>

vars == <<conf, pools, mem, chunks, th, held, crashed, static, calls, hist, typed, outside,
          smart>>

\* ------------------------------------------------------------ pure functions

\* MemoryPool::MemoryPool(BlockSize)
NewPool(BlockSize) ==
    [BlockSize_ |-> BlockSize, SlotSize_ |-> 0, firstBlock_ |-> NULL,
     curSlot_ |-> NULL, freeList_ |-> NULL, lastSlot_ |-> NULL, mutexForBlock_ |-> 0]

\* A variant of init that leaves SlotSize_ as the constructor set it.
InitPoolKeepsSize(pool, size) ==
    [pool EXCEPT !.firstBlock_ = NULL, !.curSlot_ = NULL, !.freeList_ = NULL,
                 !.lastSlot_ = NULL]

\* MemoryPool::init(size), size > 0
InitPool(pool, size) ==
    [pool EXCEPT !.SlotSize_ = size, !.firstBlock_ = NULL, !.curSlot_ = NULL,
                 !.freeList_ = NULL, !.lastSlot_ = NULL]

\* MemoryPool::padPointer(p, align), align > 0
padPointer(p, align) ==
    LET rem == p % align IN IF rem = 0 THEN 0 ELSE align - rem

\* A variant in which the cursor does not move.
CursorStepStuck(SlotSize) == 0

\* curSlot_ += SlotSize_ / sizeof(Slot): Slot* arithmetic, so the cursor moves by
\* whole Slots.
CursorStep(SlotSize) == (SlotSize \div SizeofSlot) * SizeofSlot

\* A variant of the boundary without the "+ 1".
LastSlotOfWithoutPlusOne(Block, BlockSize, SlotSize) == Block + BlockSize - SlotSize

\* lastSlot_ = Block + BlockSize_ - SlotSize_ + 1
LastSlotOf(Block, BlockSize, SlotSize) == Block + BlockSize - SlotSize + 1

\* Data area of a new chunk: the header word is skipped, then the padding.  With
\* align == 0 the remainder is a division by zero: where it does not trap (see
\* DivOutcomes) the quotient is 0, the remainder is p, the padding is 0 - p and the
\* sum wraps to 0.
FirstSlotOf(Block, SlotSize) ==
    LET dataAddr == Block + SizeofSlot
    IN  IF SlotSize = 0 THEN 0 ELSE dataAddr + padPointer(dataAddr, SlotSize)

\* What p % 0 does: a trap (x86), or a result (AArch64).
DivOutcomes(SlotSize) == IF SlotSize = 0 THEN {"trap", "wrap"} ELSE {"ok"}

\* A variant of the check that compares the cursor with the end of the chunk.
BlockExhaustedAtChunkEnd(pool) == pool.curSlot_ >= pool.lastSlot_ + pool.SlotSize_

\* if (curSlot_ >= lastSlot_)
BlockExhausted(pool) == pool.curSlot_ >= pool.lastSlot_

\* MemoryPool::allocateNewBlock() on pool, the storage operator new returned at Block
allocateNewBlock(pool, Block) ==
    [pool EXCEPT !.firstBlock_ = Block,
                 !.curSlot_ = FirstSlotOf(Block, pool.SlotSize_),
                 !.lastSlot_ = LastSlotOf(Block, pool.BlockSize_, pool.SlotSize_)]

\* *reinterpret_cast<int*>(p) = j : the low four bytes of the word are replaced.
\* Every address of the model lies below 2^32 (a heap in the low 4 GB), so the
\* upper four bytes of a stored pointer are zero and the word reads back as j.
StoreInt(word, j) == j

\* A variant of the router that hands MAX_SLOT_SIZE itself to operator new.
UseRouteOffByOne(size) ==
    IF size <= 0 THEN "null"
    ELSE IF size >= MAX_SLOT_SIZE THEN "sys"
    ELSE "pool"

\* HashBucket::useMemory: which way a request of size bytes goes.
UseRoute(size) ==
    IF size <= 0 THEN "null"
    ELSE IF size > MAX_SLOT_SIZE THEN "sys"
    ELSE "pool"

\* A variant of the index that rounds the size down to a class.
UseIndexRoundsDown(size) ==
    IF size < SLOT_BASE_SIZE THEN 0 ELSE (size \div SLOT_BASE_SIZE) - 1

\* HashBucket::useMemory: ((size + SLOT_BASE_SIZE - 1) / SLOT_BASE_SIZE) - 1
UseIndex(size) == ((size + SLOT_BASE_SIZE - 1) \div SLOT_BASE_SIZE) - 1

\* HashBucket::freeMemory: which way a release of size bytes at ptr goes.
FreeRoute(ptr, size) ==
    IF ptr = NULL THEN "null"
    ELSE IF size > MAX_SLOT_SIZE THEN "sys"
    ELSE "pool"

\* A variant of the index of freeMemory that rounds the size down to a class.
FreeIndexRoundsDown(size) ==
    IF size < SLOT_BASE_SIZE THEN 0 ELSE (size \div SLOT_BASE_SIZE) - 1

\* HashBucket::freeMemory: ((size + 7) / SLOT_BASE_SIZE) - 1
FreeIndex(size) == ((size + 7) \div SLOT_BASE_SIZE) - 1

\* A variant of initMemoryPool that sizes pool i by i, not i + 1.
SlotSizeOfIndex(i) == i * SLOT_BASE_SIZE

\* HashBucket::initMemoryPool: (i + 1) * SLOT_BASE_SIZE
SlotSizeOf(i) == (i + 1) * SLOT_BASE_SIZE

\* A static array without the guard: whoever arrives before the constructors
\* have finished runs them.
StaticLocalUnguarded(tbl) == IF tbl = "built" THEN "ready" ELSE "init"

\* static MemoryPool memoryPool[MEMORY_POOL_NUM]; what a caller reaching the
\* declaration does: the first one runs the constructors, one that arrives while
\* they run waits, a later one goes on.
StaticLocal(tbl) ==
    CASE tbl = "none" -> "init"
      [] tbl = "building" -> "wait"
      [] OTHER -> "ready"

\* The array as its constructors leave it.
ConstructedTable == [i \in 0..(MEMORY_POOL_NUM - 1) |-> NewPool(DefaultBlockSize)]

\* ------------------------------------------------------------------- memory

Store(m, a, w) == [x \in (DOMAIN m) \cup {a} |-> IF x = a THEN w ELSE m[x]]

Mapped(a) == \E c \in chunks : c.base <= a /\ a < c.base + c.size

\* A word of mapped storage nobody stored a pointer in reads as anything.
GarbageWords == {0, 1}

\* The values a load of the word at a can produce; none: the load faults.
Loads(a) ==
    IF a \in DOMAIN mem THEN {mem[a]}
    ELSE IF Mapped(a) THEN GarbageWords
    ELSE {}

\* operator new(size): some free, suitably aligned storage above what is in use.
HeapTop ==
    LET ends == {c.base + c.size : c \in chunks} \cup {HeapBase}
    IN  CHOOSE e \in ends : \A f \in ends : f <= e

AlignUp(a, n) == ((a + n - 1) \div n) * n

\* The first block lies at the start of the heap or one alignment unit above
\* it, a later one directly above the blocks in use.
NewBases ==
    IF chunks = {}
    THEN {AlignUp(HeapBase, NewAlign), AlignUp(HeapBase, NewAlign) + NewAlign}
    ELSE {AlignUp(HeapTop, NewAlign)}

\* ------------------------------------------------------------------ threads

IdleThread ==
    [pc |-> "idle", pool |-> 0, slot |-> NULL, oldHead |-> NULL, newHead |-> NULL,
     temp |-> NULL, j |-> 0, size |-> 0, cont |-> "idle"]

NoAlloc ==
    [path |-> "none", addr |-> NULL, block |-> NULL, expect |-> NULL, thread |-> 0,
     fresh |-> FALSE]

NoUse ==
    [seq |-> 0, size |-> 0, kind |-> "none", index |-> 0, addr |-> NULL, slot |-> 0,
     inited |-> FALSE]

NoFree == [seq |-> 0, size |-> 0, kind |-> "none", index |-> 0, ptr |-> NULL]

NoPair == [ctors |-> 0, dtors |-> 0, out |-> {}]

Live == 1..nthreads

\* The programs whose callers go through HashBucket: with the sizes they were
\* given ("router"), with null pointers and zero sizes too ("lax"), through
\* newElement<T> and deleteElement<T> ("typed").
RouterModes == {"router", "lax", "typed"}

\* The programs whose threads share one stand-alone MemoryPool: up to the end of
\* the threads ("share"), and with the pool destroyed while they run ("teardown").
ShareModes == {"share", "teardown", "grow", "recycle", "reinit", "aba"}

\* Calls of the router a run makes at most.
CallBudget == IF nthreads = 1 THEN MaxCalls ELSE MaxRaceCalls

Pool(t) == pools[th[t].pool]

\* Where a thread goes when its allocate() has returned.
AfterAllocate ==
    IF mode = "test" \/ mode \in ShareModes THEN "write"
    ELSE IF mode = "typed" THEN "placement" ELSE "idle"
\* Where a thread goes when its deallocate() has returned.
AfterDeallocate == IF mode = "test" THEN "next" ELSE "idle"

\* A variant in which a thread keeps the locals of the call that returned.
ReturnedKeepsLocals(thread, pc) == [thread EXCEPT !.pc = pc]

\* The call of a thread returns: its locals are gone.
Returned(thread, pc) ==
    [thread EXCEPT !.pc = pc, !.pool = 0, !.slot = NULL, !.oldHead = NULL,
                   !.newHead = NULL, !.temp = NULL, !.size = 0, !.cont = "idle"]

\* The thread when its allocation has returned addr: newElement keeps it in p,
\* and so does a thread that shares a pool, until it has stored into it.
AllocReturned(thread, addr) ==
    [Returned(thread, AfterAllocate) EXCEPT
        !.slot = IF mode = "typed" \/ mode \in ShareModes THEN addr ELSE NULL,
        !.size = IF mode = "typed" THEN thread.size ELSE 0]

\* allocate() returns addr to thread t.
AllocReturns(t, addr, path) ==
    /\ held' = [held EXCEPT ![t] = @ (+) SetToBag({[addr |-> addr, size |-> th[t].size]})]
    /\ lastAlloc' = [path |-> path, addr |-> addr, block |-> Pool(t).firstBlock_,
                     expect |-> IF freed = <<>> THEN NULL ELSE Head(freed), thread |-> t,
                     fresh |-> TRUE]
    /\ prevAlloc' = IF lastAlloc.fresh THEN lastAlloc ELSE NoAlloc
    /\ freed' = IF freed = <<>> THEN freed ELSE Tail(freed)
    /\ lastUse' = IF mode \in RouterModes
                  THEN [seq |-> calls, size |-> th[t].size, kind |-> "pool",
                        index |-> th[t].pool, addr |-> addr, slot |-> Pool(t).SlotSize_,
                        inited |-> inited]
                  ELSE lastUse

\* ------------------------------------------------- MemoryPool::popFreeList

\* A variant of allocate() that goes to the bump path whatever the free stack holds.
PopLoadIgnoresStack(t) ==
    /\ ~crashed /\ t \in Live
    /\ th[t].pc = "pop_load"
    /\ th' = [th EXCEPT ![t].pc = "lock"]
    /\ UNCHANGED <<conf, smart, typed, outside, pools, mem, chunks, held, crashed, static, calls, hist>>

\* Slot* oldHead = freeList_.load(acquire); if (oldHead == nullptr) return nullptr;
PopLoad(t) ==
    /\ ~crashed /\ t \in Live
    /\ th[t].pc = "pop_load"
    /\ th' = [th EXCEPT ![t].oldHead = Pool(t).freeList_,
                        ![t].pc = IF Pool(t).freeList_ = NULL THEN "lock" ELSE "pop_next"]
    /\ UNCHANGED <<conf, smart, typed, outside, pools, mem, chunks, held, crashed, static, calls, hist>>

\* newHead = oldHead->next.load(relaxed).  Through a pointer into storage that is
\* not mapped the load faults: the try/catch around it catches no hardware fault.
PopNext(t) ==
    /\ ~crashed /\ t \in Live
    /\ th[t].pc = "pop_next"
    /\ IF Loads(th[t].oldHead) = {}
       THEN /\ crashed' = TRUE
            /\ UNCHANGED th
       ELSE /\ \E w \in Loads(th[t].oldHead) :
                  th' = [th EXCEPT ![t].newHead = w, ![t].pc = "pop_cas"]
            /\ UNCHANGED crashed
    /\ UNCHANGED <<conf, smart, typed, outside, pools, mem, chunks, held, static, calls, hist>>

\* A variant of the pop that returns the head and leaves it on the stack.
PopCasOkKeepsHead(t) ==
    /\ ~crashed /\ t \in Live
    /\ th[t].pc = "pop_cas"
    /\ Pool(t).freeList_ = th[t].oldHead
    /\ th' = [th EXCEPT ![t] = AllocReturned(@, th[t].oldHead)]
    /\ AllocReturns(t, th[t].oldHead, "pop")
    /\ UNCHANGED <<conf, smart, typed, outside, pools, mem, chunks, crashed, static, calls,
                   lastFree>>

\* freeList_.compare_exchange_weak(oldHead, newHead) succeeds: return oldHead
PopCasOk(t) ==
    /\ ~crashed /\ t \in Live
    /\ th[t].pc = "pop_cas"
    /\ Pool(t).freeList_ = th[t].oldHead
    /\ pools' = [pools EXCEPT ![th[t].pool].freeList_ = th[t].newHead]
    /\ th' = [th EXCEPT ![t] = AllocReturned(@, th[t].oldHead)]
    /\ AllocReturns(t, th[t].oldHead, "pop")
    /\ UNCHANGED <<conf, smart, typed, outside, mem, chunks, crashed, static, calls, lastFree>>

\* The compare-and-swap fails (the head changed, or the weak form fails
\* spuriously): retry from the load, which declares oldHead and newHead anew.
PopCasFail(t) ==
    /\ ~crashed /\ t \in Live
    /\ th[t].pc = "pop_cas"
    /\ th' = [th EXCEPT ![t].pc = "pop_load", ![t].oldHead = NULL, ![t].newHead = NULL]
    /\ UNCHANGED <<conf, smart, typed, outside, pools, mem, chunks, held, crashed, static, calls, hist>>

\* ------------------------------------- MemoryPool::allocate, the locked part

\* A variant of the lock that does not wait for the holder of the mutex.
LockWithoutWaiting(t) ==
    /\ ~crashed /\ t \in Live
    /\ th[t].pc = "lock"
    /\ pools' = [pools EXCEPT ![th[t].pool].mutexForBlock_ = t]
    /\ th' = [th EXCEPT ![t].pc = "check"]
    /\ UNCHANGED <<conf, smart, typed, outside, mem, chunks, held, crashed, static, calls, hist>>

\* std::lock_guard<std::mutex> lock(mutexForBlock_);
Lock(t) ==
    /\ ~crashed /\ t \in Live
    /\ th[t].pc = "lock"
    /\ Pool(t).mutexForBlock_ = 0
    /\ pools' = [pools EXCEPT ![th[t].pool].mutexForBlock_ = t]
    /\ th' = [th EXCEPT ![t].pc = "check"]
    /\ UNCHANGED <<conf, smart, typed, outside, mem, chunks, held, crashed, static, calls, hist>>

\* A variant of the growth step that gives the exhausted chunk back to the
\* system when it acquires the new one.
AllocateNewBlockReplacing(t) ==
    /\ ~crashed /\ t \in Live
    /\ th[t].pc = "check"
    /\ BlockExhausted(Pool(t))
    /\ Cardinality(chunks) < MaxChunks
    /\ \E Block \in NewBases, div \in DivOutcomes(Pool(t).SlotSize_) :
          /\ chunks' = {c \in chunks : c.base # Pool(t).firstBlock_}
                          \cup {[base |-> Block, size |-> Pool(t).BlockSize_,
                                 owner |-> th[t].pool]}
          /\ mem' = Store(mem, Block, NULL)
          /\ pools' = [pools EXCEPT ![th[t].pool] =
                          IF div = "trap" THEN [@ EXCEPT !.firstBlock_ = Block]
                          ELSE allocateNewBlock(@, Block)]
          /\ crashed' = (div = "trap")
    /\ th' = [th EXCEPT ![t].pc = "carve"]
    /\ UNCHANGED <<conf, smart, typed, outside, held, static, calls, hist>>

\* A variant of the growth step that does not look at the cursor again once
\* it has the mutex.
AllocateNewBlockUnchecked(t) ==
    /\ ~crashed /\ t \in Live
    /\ th[t].pc = "check"
    /\ Cardinality(chunks) < MaxChunks
    /\ \E Block \in NewBases :
          /\ chunks' = chunks \cup {[base |-> Block, size |-> Pool(t).BlockSize_,
                                     owner |-> th[t].pool]}
          /\ mem' = Store(mem, Block, Pool(t).firstBlock_)
          /\ pools' = [pools EXCEPT ![th[t].pool] = allocateNewBlock(@, Block)]
    /\ th' = [th EXCEPT ![t].pc = "carve"]
    /\ UNCHANGED <<conf, smart, typed, outside, held, crashed, static, calls, hist>>

\* if (curSlot_ >= lastSlot_) allocateNewBlock();
AllocateNewBlock(t) ==
    /\ ~crashed /\ t \in Live
    /\ th[t].pc = "check"
    /\ BlockExhausted(Pool(t))
    /\ Cardinality(chunks) < MaxChunks
    /\ \E Block \in NewBases, div \in DivOutcomes(Pool(t).SlotSize_) :
          /\ chunks' = chunks \cup {[base |-> Block, size |-> Pool(t).BlockSize_,
                                     owner |-> th[t].pool]}
          /\ mem' = Store(mem, Block, Pool(t).firstBlock_)
          /\ pools' = [pools EXCEPT ![th[t].pool] =
                          IF div = "trap" THEN [@ EXCEPT !.firstBlock_ = Block]
                          ELSE allocateNewBlock(@, Block)]
          /\ crashed' = (div = "trap")
    /\ th' = [th EXCEPT ![t].pc = "carve"]
    /\ UNCHANGED <<conf, smart, typed, outside, held, static, calls, hist>>

\* temp = curSlot_; curSlot_ += SlotSize_ / sizeof(Slot);
Carve(t) ==
    /\ ~crashed /\ t \in Live
    /\ \/ th[t].pc = "carve"
       \/ th[t].pc = "check" /\ ~BlockExhausted(Pool(t))
    /\ pools' = [pools EXCEPT ![th[t].pool].curSlot_ = @ + CursorStep(Pool(t).SlotSize_)]
    /\ th' = [th EXCEPT ![t].temp = Pool(t).curSlot_, ![t].pc = "unlock"]
    /\ UNCHANGED <<conf, smart, typed, outside, mem, chunks, held, crashed, static, calls, hist>>

\* The lock_guard goes out of scope; return temp;
Unlock(t) ==
    /\ ~crashed /\ t \in Live
    /\ th[t].pc = "unlock"
    /\ pools' = [pools EXCEPT ![th[t].pool].mutexForBlock_ = 0]
    /\ th' = [th EXCEPT ![t] = AllocReturned(@, th[t].temp)]
    /\ AllocReturns(t, th[t].temp, "bump")
    /\ UNCHANGED <<conf, smart, typed, outside, mem, chunks, crashed, static, calls, lastFree>>

\* ------------------------------ MemoryPool::deallocate / pushFreeList

\* A variant of the push that waits for the mutex to be free.
PushLoadWaits(t) ==
    /\ ~crashed /\ t \in Live
    /\ th[t].pc = "push_load"
    /\ Pool(t).mutexForBlock_ = 0
    /\ th' = [th EXCEPT ![t].oldHead = Pool(t).freeList_, ![t].pc = "push_store"]
    /\ UNCHANGED <<conf, smart, typed, outside, pools, mem, chunks, held, crashed, static, calls, hist>>

\* Slot* oldHead = freeList_.load(relaxed);
PushLoad(t) ==
    /\ ~crashed /\ t \in Live
    /\ th[t].pc = "push_load"
    /\ th' = [th EXCEPT ![t].oldHead = Pool(t).freeList_, ![t].pc = "push_store"]
    /\ UNCHANGED <<conf, smart, typed, outside, pools, mem, chunks, held, crashed, static, calls, hist>>

\* slot->next.store(oldHead, relaxed);
PushStore(t) ==
    /\ ~crashed /\ t \in Live
    /\ th[t].pc = "push_store"
    /\ IF Mapped(th[t].slot)
       THEN /\ mem' = Store(mem, th[t].slot, th[t].oldHead)
            /\ th' = [th EXCEPT ![t].pc = "push_cas"]
            /\ UNCHANGED crashed
       ELSE /\ crashed' = TRUE
            /\ UNCHANGED <<mem, th>>
    /\ UNCHANGED <<conf, smart, typed, outside, pools, chunks, held, static, calls, hist>>

\* freeList_.compare_exchange_weak(oldHead, slot) succeeds: return true
PushCasOk(t) ==
    /\ ~crashed /\ t \in Live
    /\ th[t].pc = "push_cas"
    /\ Pool(t).freeList_ = th[t].oldHead
    /\ pools' = [pools EXCEPT ![th[t].pool].freeList_ = th[t].slot]
    /\ th' = [th EXCEPT ![t] = Returned(@, AfterDeallocate)]
    /\ freed' = <<th[t].slot>> \o freed
    /\ lastFree' = IF mode \in RouterModes
                   THEN [seq |-> calls, size |-> th[t].size, kind |-> "pool",
                         index |-> th[t].pool, ptr |-> th[t].slot]
                   ELSE lastFree
    /\ UNCHANGED <<conf, smart, typed, outside, mem, chunks, held, crashed, static, calls,
                   lastAlloc, prevAlloc, lastUse>>

\* The compare-and-swap fails (the head changed, or spuriously): retry.
PushCasFail(t) ==
    /\ ~crashed /\ t \in Live
    /\ th[t].pc = "push_cas"
    /\ th' = [th EXCEPT ![t].pc = "push_load", ![t].oldHead = NULL]
    /\ UNCHANGED <<conf, smart, typed, outside, pools, mem, chunks, held, crashed, static, calls, hist>>

\* The steps of allocate() and deallocate() of thread t, whoever called them.
PoolStep(t) ==
    \/ PopLoad(t) \/ PopNext(t) \/ PopCasOk(t) \/ PopCasFail(t)
    \/ Lock(t) \/ AllocateNewBlock(t) \/ Carve(t) \/ Unlock(t)
    \/ PushLoad(t) \/ PushStore(t) \/ PushCasOk(t) \/ PushCasFail(t)

\* --------------------------------------------- callers of a stand-alone pool

\* The programs that use one MemoryPool from one thread: any calls ("pool"),
\* and calls up to the destruction of the pool with a bounded number of stores
\* into held memory ("life").
PoolModes == {"pool", "life"}

\* What a caller stores in the first word of memory it holds at p.
UserInts(p) == {p + 2}

\* pool.init(size), before the pool is used
CallInit(size) ==
    /\ ~crashed /\ mode \in PoolModes
    /\ pools[0].SlotSize_ = 0
    /\ pools' = [pools EXCEPT ![0] = InitPool(@, size)]
    /\ UNCHANGED <<conf, smart, typed, outside, mem, chunks, th, held, crashed, static, calls, hist>>

\* A variant of init that checks its argument after it has reset the pool.
CallInitAssertsLast(size) ==
    /\ ~crashed /\ mode = "reinit"
    /\ \A t \in Live : th[t].pc = "idle"
    /\ calls < MaxReinitCalls
    /\ calls' = calls + 1
    /\ lastUse' = [NoUse EXCEPT !.kind = "init", !.size = size, !.seq = calls + 1]
    /\ crashed' = ~(size > 0)
    /\ pools' = [pools EXCEPT ![0] = InitPool(@, size)]
    /\ UNCHANGED <<conf, smart, typed, outside, mem, chunks, th, held, static, lastAlloc,
                   prevAlloc, freed, lastFree>>

\* pool.init(size) at any time between two calls, on a fresh or a used pool:
\* assert(size > 0); then the five assignments.  The documented build
\* (g++ -std=c++11 -pthread -O2) keeps the assertion.
CallInitAny(size) ==
    /\ ~crashed /\ mode = "reinit"
    /\ \A t \in Live : th[t].pc = "idle"
    /\ calls < MaxReinitCalls
    /\ calls' = calls + 1
    /\ lastUse' = [NoUse EXCEPT !.kind = "init", !.size = size, !.seq = calls + 1]
    /\ IF size > 0
       THEN pools' = [pools EXCEPT ![0] = InitPool(@, size)] /\ UNCHANGED crashed
       ELSE crashed' = TRUE /\ UNCHANGED pools
    /\ UNCHANGED <<conf, smart, typed, outside, mem, chunks, th, held, static, lastAlloc,
                   prevAlloc, freed, lastFree>>

\* pool.allocate()
CallAllocate(t) ==
    /\ ~crashed /\ mode \in PoolModes /\ t \in Live
    /\ th[t].pc = "idle"
    /\ pools[0].SlotSize_ > 0
    /\ BagCardinality(held[t]) < MaxHeld
    /\ th' = [th EXCEPT ![t].pc = "pop_load", ![t].pool = 0]
    /\ UNCHANGED <<conf, smart, typed, outside, pools, mem, chunks, held, crashed, static, calls, hist>>

\* pool.deallocate(ptr), ptr an address allocate() returned: if (!ptr) return;
\* pushFreeList(slot)
CallDeallocate(t, e) ==
    /\ ~crashed /\ mode \in PoolModes /\ t \in Live
    /\ th[t].pc = "idle"
    /\ e \in BagToSet(held[t])
    /\ e.addr # NULL
    /\ held' = [held EXCEPT ![t] = @ (-) SetToBag({e})]
    /\ th' = [th EXCEPT ![t].pc = "push_load", ![t].pool = 0, ![t].slot = e.addr]
    /\ prevAlloc' = NoAlloc
    /\ lastAlloc' = [lastAlloc EXCEPT !.fresh = FALSE]
    /\ UNCHANGED <<conf, smart, typed, outside, pools, mem, chunks, crashed, static, calls, freed,
                   lastUse, lastFree>>

\* The caller stores j into memory it holds.
CallerWrites(t, e, j) ==
    /\ ~crashed /\ t \in Live
    /\ \/ mode \in {"pool", "router"} /\ UNCHANGED calls
       \/ mode = "life" /\ calls < MaxWrites /\ calls' = calls + 1
    /\ th[t].pc = "idle"
    /\ e \in BagToSet(held[t])
    /\ e.addr # NULL
    /\ j \in UserInts(e.addr)
    /\ IF Mapped(e.addr)
       THEN mem' = Store(mem, e.addr, j) /\ UNCHANGED crashed
       ELSE crashed' = TRUE /\ UNCHANGED mem
    /\ UNCHANGED <<conf, smart, typed, outside, pools, chunks, th, held, static, hist>>

\* ------------------------------------------- threads that share a stand-alone pool

\* Calls of allocate/deallocate the threads make at most.
ShareBudget ==
    IF mode = "share" THEN MaxShareCalls
    ELSE IF mode = "grow" THEN MaxGrowCalls
    ELSE IF mode = "recycle" THEN MaxRecycleCalls
    ELSE IF mode = "aba" THEN MaxAbaCalls
    ELSE IF mode = "reinit" THEN MaxReinitCalls ELSE MaxTeardownCalls

\* ~MemoryPool() has run.
TornDown == \E t \in Live : th[t].pc = "destroyed"

\* pool.allocate() by one of the threads that share the pool
ShareAllocate(t) ==
    /\ ~crashed /\ mode \in ShareModes /\ t \in Live
    /\ th[t].pc = "idle"
    /\ calls < ShareBudget /\ ~TornDown
    /\ BagCardinality(held[t]) < MaxHeld
    /\ th' = [th EXCEPT ![t].pc = "pop_load", ![t].pool = 0]
    /\ calls' = calls + 1
    /\ UNCHANGED <<conf, smart, typed, outside, pools, mem, chunks, held, crashed, static, hist>>

\* pool.deallocate(ptr) by one of them, ptr an address it holds
ShareDeallocate(t, e) ==
    /\ ~crashed /\ mode \in ShareModes /\ t \in Live
    /\ th[t].pc = "idle"
    /\ calls < ShareBudget /\ ~TornDown
    /\ e \in BagToSet(held[t])
    /\ e.addr # NULL
    /\ held' = [held EXCEPT ![t] = @ (-) SetToBag({e})]
    /\ th' = [th EXCEPT ![t].pc = "push_load", ![t].pool = 0, ![t].slot = e.addr]
    /\ calls' = calls + 1
    /\ prevAlloc' = NoAlloc
    /\ lastAlloc' = [lastAlloc EXCEPT !.fresh = FALSE]
    /\ UNCHANGED <<conf, smart, typed, outside, pools, mem, chunks, crashed, static, freed,
                   lastUse, lastFree>>

\* *reinterpret_cast<int*>(p) = j;  by one of them, on the address p that
\* allocate() has just returned to it
ShareWrites(t, j) ==
    /\ ~crashed /\ mode \in ShareModes /\ t \in Live
    /\ th[t].pc = "write"
    /\ j \in UserInts(th[t].slot)
    /\ IF Mapped(th[t].slot)
       THEN mem' = Store(mem, th[t].slot, j) /\ UNCHANGED crashed
       ELSE crashed' = TRUE /\ UNCHANGED mem
    /\ th' = [th EXCEPT ![t].pc = "idle", ![t].slot = NULL]
    /\ UNCHANGED <<conf, smart, typed, outside, pools, chunks, held, static, calls, hist>>

\* The address a lies in a chunk that the destructor gave back and that has
\* not been handed out again.
InReleased(a) ==
    /\ ~Mapped(a)
    /\ \E k \in 1..Len(released) :
          released[k] <= a /\ a < released[k] + pools[0].BlockSize_

\* oldHead->next.load() or slot->next.store() of a call that was in flight when
\* the destructor ran, on a slot of a released chunk, when the access does not
\* fault: the load yields anything, the store lands in storage nobody owns.
\* (PopNext and PushStore are the same access when it faults.)
TouchReleased(t) ==
    /\ ~crashed /\ mode = "teardown" /\ t \in Live
    /\ \/ /\ th[t].pc = "pop_next" /\ InReleased(th[t].oldHead)
          /\ \E w \in GarbageWords :
                th' = [th EXCEPT ![t].newHead = w, ![t].pc = "pop_cas"]
       \/ /\ th[t].pc = "push_store" /\ InReleased(th[t].slot)
          /\ th' = [th EXCEPT ![t].pc = "push_cas"]
    /\ UNCHANGED <<conf, smart, typed, outside, pools, mem, chunks, held, crashed, static, calls,
                   hist>>

\* ------------------------------------------------------ MemoryPool::~MemoryPool

\* The chunks the loop of the destructor visits from cur: next = cur->next.load();
\* operator delete(cur); cur = next.  A header that was never stored reads as
\* anything; the walk is cut after fuel chunks.
RECURSIVE BlocksFrom(_, _)
BlocksFrom(cur, fuel) ==
    IF cur = NULL \/ fuel = 0 THEN <<>>
    ELSE <<cur>> \o BlocksFrom(IF cur \in DOMAIN mem THEN mem[cur] ELSE 1, fuel - 1)

\* A variant of the destructor that deletes the first chunk only.
DestructorWalkFirstOnly(pool) ==
    IF pool.firstBlock_ = NULL THEN <<>> ELSE <<pool.firstBlock_>>

\* Slot* cur = firstBlock_; while (cur != nullptr) { ... }
DestructorWalk(pool) == BlocksFrom(pool.firstBlock_, Cardinality(chunks) + 1)

\* The chunk bases that are live and owned by pool i.
BlocksOf(i) == {c.base : c \in {d \in chunks : d.owner = i}}

\* ~MemoryPool(): in the programs of one thread the pool goes out of scope while
\* no call on it is running; where threads share the pool its owner, a thread
\* that is in no call, destroys it whatever the others are doing, and the
\* threads that are in no call make no further one.
\* operator delete of an address that is no live chunk, or of one chunk twice,
\* is an invalid free.
Destroy ==
    /\ ~crashed
    /\ pools[0].SlotSize_ > 0
    /\ \/ mode \in PoolModes /\ \A t \in Live : th[t].pc = "idle"
       \/ /\ mode = "teardown" /\ \E t \in Live : th[t].pc = "idle"
          /\ \A t \in Live : th[t].pc # "destroyed"
    /\ LET walk == DestructorWalk(pools[0])
           gone == {walk[k] : k \in 1..Len(walk)}
       IN  /\ released' = released \o walk
           /\ chunks' = {c \in chunks : c.base \notin gone}
           /\ mem' = [a \in {x \in DOMAIN mem :
                                \A c \in chunks :
                                    c.base \in gone => (x < c.base \/ x >= c.base + c.size)}
                         |-> mem[a]]
           /\ crashed' = \/ \E k \in 1..Len(walk) : walk[k] \notin BlocksOf(0)
                         \/ \E k, l \in 1..Len(walk) : k # l /\ walk[k] = walk[l]
    /\ th' = [t \in Threads |-> IF t \in Live /\ th[t].pc = "idle"
                                THEN [th[t] EXCEPT !.pc = "destroyed"]
                                ELSE th[t]]
    /\ UNCHANGED <<conf, smart, typed, wild, pools, held, static, calls, hist>>

\* ----------------------------------------------------------- TestConcurrency

\* MemoryPool pool(4096); pool.init(8); the threads are started.
TestInit ==
    /\ ~crashed /\ mode = "test"
    /\ \A t \in Live : th[t].pc = "unborn"
    /\ pools' = [pools EXCEPT ![0] = InitPool(@, SLOT_BASE_SIZE)]
    /\ th' = [t \in Threads |-> IF t \in Live THEN [th[t] EXCEPT !.pc = "loop"] ELSE th[t]]
    /\ UNCHANGED <<conf, smart, typed, outside, mem, chunks, held, crashed, static, calls, hist>>

\* for (j = 0; j < OPS_PER_THREAD; ...) void* p = pool.allocate();
TestAllocate(t) ==
    /\ ~crashed /\ mode = "test" /\ t \in Live
    /\ th[t].pc = "loop"
    /\ th[t].j < TestOps
    /\ th' = [th EXCEPT ![t].pc = "pop_load", ![t].pool = 0]
    /\ UNCHANGED <<conf, smart, typed, outside, pools, mem, chunks, held, crashed, static, calls, hist>>

\* *reinterpret_cast<int*>(p) = j;
TestWrite(t) ==
    /\ ~crashed /\ mode = "test" /\ t \in Live
    /\ th[t].pc = "write"
    /\ \E e \in BagToSet(held[t]) :
          IF Mapped(e.addr)
          THEN /\ \E old \in Loads(e.addr) : mem' = Store(mem, e.addr, StoreInt(old, th[t].j))
               /\ th' = [th EXCEPT ![t].pc = "dealloc"]
               /\ UNCHANGED crashed
          ELSE /\ crashed' = TRUE
               /\ UNCHANGED <<mem, th>>
    /\ UNCHANGED <<conf, smart, typed, outside, pools, chunks, held, static, calls, hist>>

\* pool.deallocate(p);
TestDeallocate(t) ==
    /\ ~crashed /\ mode = "test" /\ t \in Live
    /\ th[t].pc = "dealloc"
    /\ \E e \in BagToSet(held[t]) :
          /\ held' = [held EXCEPT ![t] = @ (-) SetToBag({e})]
          /\ th' = [th EXCEPT ![t].pc = IF e.addr = NULL THEN "next" ELSE "push_load",
                              ![t].pool = 0, ![t].slot = e.addr]
    /\ prevAlloc' = NoAlloc
    /\ lastAlloc' = [lastAlloc EXCEPT !.fresh = FALSE]
    /\ UNCHANGED <<conf, smart, typed, outside, pools, mem, chunks, crashed, static, calls, freed,
                   lastUse, lastFree>>

\* ++j
TestNext(t) ==
    /\ ~crashed /\ mode = "test" /\ t \in Live
    /\ th[t].pc = "next"
    /\ th' = [th EXCEPT ![t].pc = "loop", ![t].j = @ + 1]
    /\ UNCHANGED <<conf, smart, typed, outside, pools, mem, chunks, held, crashed, static, calls, hist>>

\* ---------------------------------------------------------------- HashBucket

\* HashBucket::initMemoryPool(), called by the main thread while no call of
\* the router is in progress: getMemoryPool(i).init((i + 1) * SLOT_BASE_SIZE)
\* for every i.  The first getMemoryPool constructs the array.
InitMemoryPool ==
    /\ ~crashed /\ mode \in RouterModes
    /\ ~inited
    /\ \A t \in Live : th[t].pc = "idle"
    /\ LET memoryPool == IF StaticLocal(table) = "init" THEN ConstructedTable ELSE pools
       IN  pools' = [i \in DOMAIN memoryPool |-> InitPool(memoryPool[i], SlotSizeOf(i))]
    /\ constructed' = IF StaticLocal(table) = "init" THEN constructed + 1 ELSE constructed
    /\ table' = "built"
    /\ inited' = TRUE
    /\ UNCHANGED <<conf, smart, typed, outside, mem, chunks, th, held, crashed, calls, hist>>

\* HashBucket::useMemory(size) up to the call of getMemoryPool; newElement<T>
\* calls it with sizeof(T).
UseMemory(t, size) ==
    /\ ~crashed /\ t \in Live
    /\ \/ mode \in {"router", "lax"} /\ th[t].pc = "idle"
       \/ mode = "typed" /\ th[t].pc = "use" /\ size = th[t].size
    /\ size \in sizes
    /\ calls < CallBudget
    /\ BagCardinality(held[t]) < MaxHeld
    /\ calls' = calls + 1
    /\ IF UseRoute(size) = "null"
       THEN /\ held' = [held EXCEPT ![t] = @ (+) SetToBag({[addr |-> NULL, size |-> size]})]
            /\ lastUse' = [seq |-> calls + 1, size |-> size, kind |-> "null", index |-> 0,
                           addr |-> NULL, slot |-> 0, inited |-> inited]
            /\ th' = [th EXCEPT ![t] = AllocReturned(@, NULL)]
            /\ UNCHANGED chunks
       ELSE IF UseRoute(size) = "sys"
       THEN /\ Cardinality(chunks) < MaxChunks
            /\ \E p \in NewBases :
                  /\ chunks' = chunks \cup {[base |-> p, size |-> size, owner |-> SysOwner]}
                  /\ held' = [held EXCEPT ![t] = @ (+) SetToBag({[addr |-> p, size |-> size]})]
                  /\ lastUse' = [seq |-> calls + 1, size |-> size, kind |-> "sys",
                                 index |-> 0, addr |-> p, slot |-> 0, inited |-> inited]
                  /\ th' = [th EXCEPT ![t] = AllocReturned(@, p)]
       ELSE /\ th' = [th EXCEPT ![t].pc = "get_pool", ![t].pool = UseIndex(size),
                                ![t].size = size, ![t].cont = "pop_load"]
            /\ UNCHANGED <<chunks, held, lastUse>>
    /\ UNCHANGED <<conf, smart, typed, outside, pools, mem, crashed, static, lastAlloc, prevAlloc,
                   freed, lastFree>>

\* What a caller passes to freeMemory: a pointer it holds with the size it asked
\* for; a lax caller also a null pointer with any size, or size 0 with a pointer
\* it holds.
FreeArgs(t) ==
    LET mine == BagToSet(held[t])
    IN  IF mode = "lax"
        THEN mine \cup {[addr |-> NULL, size |-> s] : s \in sizes \cup {0}}
                  \cup {[addr |-> h.addr, size |-> 0] : h \in mine}
        ELSE mine

\* The caller no longer holds ptr.
Dropped(bag, ptr) ==
    LET mine == {h \in BagToSet(bag) : h.addr = ptr}
    IN  IF mine = {} THEN bag ELSE bag (-) SetToBag({CHOOSE h \in mine : TRUE})

\* HashBucket::freeMemory(ptr, size) up to the call of getMemoryPool;
\* deleteElement<T> calls it with sizeof(T).  operator delete of a pointer
\* operator new did not return is the end of the process.
FreeMemory(t, e) ==
    /\ ~crashed /\ t \in Live
    /\ \/ mode \in {"router", "lax"} /\ th[t].pc = "idle" /\ e \in FreeArgs(t)
       \/ mode = "typed" /\ th[t].pc = "free" /\ e = [addr |-> th[t].slot, size |-> th[t].size]
    /\ calls < CallBudget
    /\ calls' = calls + 1
    /\ held' = [held EXCEPT ![t] = Dropped(@, e.addr)]
    /\ IF FreeRoute(e.addr, e.size) = "null"
       THEN /\ lastFree' = [seq |-> calls + 1, size |-> e.size, kind |-> "null",
                            index |-> 0, ptr |-> e.addr]
            /\ th' = [th EXCEPT ![t] = Returned(@, AfterDeallocate)]
            /\ UNCHANGED <<chunks, mem, crashed, lastAlloc, prevAlloc>>
       ELSE IF FreeRoute(e.addr, e.size) = "sys"
       THEN /\ lastFree' = [seq |-> calls + 1, size |-> e.size, kind |-> "sys",
                            index |-> 0, ptr |-> e.addr]
            /\ LET blocks == {c \in chunks : c.base = e.addr /\ c.owner = SysOwner}
                   gone == {a \in DOMAIN mem :
                               \E c \in blocks : c.base <= a /\ a < c.base + c.size}
               IN  /\ crashed' = (blocks = {})
                   /\ chunks' = chunks \ blocks
                   /\ mem' = [a \in (DOMAIN mem) \ gone |-> mem[a]]
            /\ th' = [th EXCEPT ![t] = Returned(@, AfterDeallocate)]
            /\ UNCHANGED <<lastAlloc, prevAlloc>>
       ELSE /\ th' = [th EXCEPT ![t].pc = "get_pool", ![t].pool = FreeIndex(e.size),
                                ![t].slot = e.addr, ![t].size = e.size,
                                ![t].cont = "dealloc"]
            /\ prevAlloc' = NoAlloc
            /\ lastAlloc' = [lastAlloc EXCEPT !.fresh = FALSE]
            /\ UNCHANGED <<chunks, mem, crashed, lastFree>>
    /\ UNCHANGED <<conf, smart, typed, outside, pools, static, freed, lastUse>>

\* return memoryPool[index]: the member function the caller named runs on that
\* element; an index outside 0 .. MEMORY_POOL_NUM - 1 names storage that is no
\* element of the array.
Entered(thread) ==
    IF thread.pool \in 0..(MEMORY_POOL_NUM - 1) THEN thread.cont ELSE "stray"

\* HashBucket::getMemoryPool(index): the caller reaches the declaration of the
\* static array; return memoryPool[index];
GetMemoryPool(t) ==
    /\ ~crashed /\ t \in Live
    /\ th[t].pc = "get_pool"
    /\ StaticLocal(table) # "wait"
    /\ IF StaticLocal(table) = "init"
       THEN /\ table' = "building"
            /\ th' = [th EXCEPT ![t].pc = "construct"]
       ELSE /\ th' = [th EXCEPT ![t].pc = Entered(th[t])]
            /\ UNCHANGED table
    /\ UNCHANGED <<conf, smart, typed, outside, pools, mem, chunks, held, crashed, constructed, inited, calls, hist>>

\* The constructors of the MEMORY_POOL_NUM elements run; return memoryPool[index];
ConstructTable(t) ==
    /\ ~crashed /\ t \in Live
    /\ th[t].pc = "construct"
    /\ pools' = ConstructedTable
    /\ constructed' = constructed + 1
    /\ table' = "built"
    /\ th' = [th EXCEPT ![t].pc = Entered(th[t])]
    /\ UNCHANGED <<conf, smart, typed, outside, mem, chunks, held, crashed, inited, calls, hist>>

\* deallocate(ptr) on storage next to the pool table: the access is out of
\* bounds; it faults, or pushFreeList runs on whatever lies there.
StrayOutcomes == {"trap", "stray"}

StrayPool(t) ==
    /\ ~crashed /\ t \in Live
    /\ th[t].pc = "stray"
    /\ \E outcome \in StrayOutcomes :
          /\ crashed' = (outcome = "trap")
          /\ wild' = (outcome = "stray")
          /\ th' = [th EXCEPT ![t] = IF outcome = "trap" THEN @ ELSE Returned(@, AfterDeallocate)]
          /\ lastFree' = IF outcome = "trap" THEN lastFree
                         ELSE [seq |-> calls, size |-> th[t].size, kind |-> "wild",
                               index |-> th[t].pool, ptr |-> th[t].slot]
    /\ UNCHANGED <<conf, smart, typed, released, pools, mem, chunks, held, static, calls,
                   lastAlloc, prevAlloc, freed, lastUse>>

\* A variant of deallocate without the test for a null pointer.
DeallocateNoNullCheck(t) ==
    /\ ~crashed /\ t \in Live
    /\ th[t].pc = "dealloc"
    /\ th' = [th EXCEPT ![t].pc = "push_load"]
    /\ UNCHANGED <<conf, smart, typed, outside, pools, mem, chunks, held, crashed, static, calls,
                   hist>>

\* MemoryPool::deallocate(ptr) of the pool getMemoryPool returned:
\* if (!ptr) return; pushFreeList(slot) comes next.
Deallocate(t) ==
    /\ ~crashed /\ t \in Live
    /\ th[t].pc = "dealloc"
    /\ IF th[t].slot = NULL
       THEN /\ th' = [th EXCEPT ![t] = Returned(@, AfterDeallocate)]
            /\ lastFree' = [seq |-> calls, size |-> th[t].size, kind |-> "nullptr",
                            index |-> th[t].pool, ptr |-> NULL]
       ELSE /\ th' = [th EXCEPT ![t].pc = "push_load"]
            /\ UNCHANGED lastFree
    /\ UNCHANGED <<conf, smart, typed, outside, pools, mem, chunks, held, crashed, static, calls,
                   lastAlloc, prevAlloc, freed, lastUse>>

\* A lax caller calls getMemoryPool(i).deallocate(nullptr).
DeallocateNull(t, i) ==
    /\ ~crashed /\ mode = "lax" /\ t \in Live
    /\ th[t].pc = "idle"
    /\ calls < CallBudget
    /\ calls' = calls + 1
    /\ th' = [th EXCEPT ![t].pc = "get_pool", ![t].pool = i, ![t].slot = NULL,
                        ![t].cont = "dealloc"]
    /\ UNCHANGED <<conf, smart, typed, outside, pools, mem, chunks, held, crashed, static, hist>>

\* ------------------------------------------- newElement<T>, deleteElement<T>

\* sizeof(T) of the classes the benchmark creates: P1, P2, P3, P4.
TypeSizes == {4, 20, 40, 80}

\* What the constructor of T stores in the first word of the object at p.
ObjectWord(p) == p + 2

\* newElement<T>(args) is called: p = useMemory(sizeof(T)) comes next.
NewElement(t, size) ==
    /\ ~crashed /\ mode = "typed" /\ t \in Live
    /\ th[t].pc = "idle"
    /\ size \in sizes
    /\ calls < CallBudget
    /\ BagCardinality(held[t]) < MaxHeld
    /\ th' = [th EXCEPT ![t].pc = "use", ![t].size = size]
    /\ before' = [ctors |-> ctors, dtors |-> dtors,
                  out |-> {h.addr : h \in BagToSet(held[t])} \ {NULL}]
    /\ UNCHANGED <<conf, smart, pools, mem, chunks, held, crashed, static, calls, hist,
                   ctors, dtors, objects, outside>>

\* if (p != nullptr) new (p) T(std::forward<Args>(args)...); return p;
Construct(t) ==
    /\ ~crashed /\ t \in Live
    /\ th[t].pc = "placement"
    /\ IF th[t].slot = NULL
       THEN UNCHANGED <<mem, crashed, ctors, objects>>
       ELSE /\ ctors' = ctors + 1
            /\ objects' = objects \cup {th[t].slot}
            /\ IF Mapped(th[t].slot)
               THEN mem' = Store(mem, th[t].slot, ObjectWord(th[t].slot)) /\ UNCHANGED crashed
               ELSE crashed' = TRUE /\ UNCHANGED mem
    /\ th' = [th EXCEPT ![t] = Returned(@, "idle")]
    /\ UNCHANGED <<conf, smart, pools, chunks, held, static, calls, hist, dtors, before, outside>>

\* A variant of deleteElement that does not run the destructor.
DeleteElementNoDtor(t, e) ==
    /\ ~crashed /\ t \in Live
    /\ mode = "typed" \/ (mode = "lax" /\ e.addr = NULL)
    /\ th[t].pc = "idle"
    /\ e \in BagToSet(held[t]) \cup {[addr |-> NULL, size |-> s] : s \in sizes}
    /\ IF e.addr = NULL
       THEN /\ held' = [held EXCEPT ![t] = Dropped(@, e.addr)]
            /\ lastFree' = [seq |-> calls, size |-> e.size, kind |-> "skip", index |-> 0,
                            ptr |-> NULL]
            /\ UNCHANGED th
       ELSE /\ calls < CallBudget
            /\ th' = [th EXCEPT ![t].pc = "free", ![t].slot = e.addr, ![t].size = e.size]
            /\ UNCHANGED <<held, lastFree>>
    /\ UNCHANGED <<conf, smart, pools, mem, chunks, crashed, static, calls, lastAlloc, prevAlloc,
                   freed, lastUse, ctors, dtors, objects, before, outside>>

\* deleteElement<T>(p) for a pointer newElement<T> returned, or a null pointer:
\* if (p) { p->~T(); freeMemory(p, sizeof(T)) comes next }
DeleteElement(t, e) ==
    /\ ~crashed /\ t \in Live
    /\ mode = "typed" \/ (mode = "lax" /\ e.addr = NULL)
    /\ th[t].pc = "idle"
    /\ e \in BagToSet(held[t]) \cup {[addr |-> NULL, size |-> s] : s \in sizes}
    /\ IF e.addr = NULL
       THEN /\ held' = [held EXCEPT ![t] = Dropped(@, e.addr)]
            /\ lastFree' = [seq |-> calls, size |-> e.size, kind |-> "skip", index |-> 0,
                            ptr |-> NULL]
            /\ UNCHANGED <<th, dtors, objects>>
       ELSE /\ calls < CallBudget
            /\ dtors' = dtors + 1
            /\ objects' = objects \ {e.addr}
            /\ th' = [th EXCEPT ![t].pc = "free", ![t].slot = e.addr, ![t].size = e.size]
            /\ UNCHANGED <<held, lastFree>>
    /\ UNCHANGED <<conf, smart, pools, mem, chunks, crashed, static, calls, lastAlloc, prevAlloc,
                   freed, lastUse, ctors, before, outside>>

\* ------------------------------------------- MySharedPtr, MyWeakPtr, ControlBlock

\* MySharedPtr variables of the program.
SharedVars == 1..NShared
\* TestClass objects the program creates with new; object o has control block o.
Objects == 1..MaxObjects
\* MyWeakPtr variables of the program: 1..NWeak; NWeak + o is the weak_member of
\* object o.
WeakVars == 1..NWeak
MemberOf(o) == NWeak + o
AllWeak == 1..(NWeak + MaxObjects)

\* A smart pointer that does not exist, and one that exists and is null.
NoPointer == [live |-> FALSE, ptr |-> NULL, control_block |-> NULL]
NullPointer == [live |-> TRUE, ptr |-> NULL, control_block |-> NULL]
\* A smart pointer to object o.
PointerTo(o) == [live |-> TRUE, ptr |-> o, control_block |-> o]

NoBlock == [state |-> "none", strong_count |-> 0, weak_count |-> 0]
NoObject == [state |-> "none", deleted |-> 0]
NoOp == [name |-> "none", a |-> 0, b |-> 0]

\* The heap as the smart pointers see it, and whether an operation went
\* through a deleted control block.
Heap == [cbs |-> cbs, objs |-> objs, wp |-> wp, ub |-> FALSE]

\* MyWeakPtr::release() of a weak pointer whose _control_block is c
WeakRelease(h, c) ==
    IF c = NULL THEN h
    ELSE IF h.cbs[c].state # "live" THEN [h EXCEPT !.ub = TRUE]
    ELSE LET d == [h.cbs EXCEPT ![c].weak_count = @ - 1]
         IN  [h EXCEPT !.cbs = IF d[c].strong_count = 0 /\ d[c].weak_count = 0
                                THEN [d EXCEPT ![c].state = "deleted"]
                                ELSE d]

\* delete _ptr for object o: ~TestClass() destroys its weak_member.
DeleteObject(h, o) ==
    LET g == WeakRelease(h, h.wp[MemberOf(o)].control_block)
    IN  [g EXCEPT !.objs[o] = [state |-> "deleted", deleted |-> @.deleted + 1],
                  !.wp[MemberOf(o)] = NoPointer]

\* A variant of MySharedPtr::release that forgets to count down.
ReleaseKeepsCount(h, s) == h

\* MySharedPtr::release() of the shared pointer s; the fields of s are set to
\* null by the caller of this operator.
release(h, s) ==
    IF s.control_block = NULL THEN h
    ELSE LET c == s.control_block
             d == [h EXCEPT !.cbs[c].strong_count = @ - 1]
         IN  IF d.cbs[c].strong_count # 0 THEN d
             ELSE LET g == DeleteObject(d, s.ptr)
                  IN  IF g.cbs[c].state # "live" THEN [g EXCEPT !.ub = TRUE]
                      ELSE IF g.cbs[c].weak_count = 0
                           THEN [g EXCEPT !.cbs[c].state = "deleted"]
                           ELSE g

\* _control_block->strong_count++ / weak_count++ for a pointer just copied
AddStrong(h, c) == IF c = NULL THEN h ELSE [h EXCEPT !.cbs[c].strong_count = @ + 1]
\* A variant in which a weak pointer counts as an owner.
AddWeakCountsStrong(h, c) == AddStrong(h, c)
AddWeak(h, c) == IF c = NULL THEN h ELSE [h EXCEPT !.cbs[c].weak_count = @ + 1]

\* new TestClass(..) and the ControlBlock made for it: the first unused object
NewObject == CHOOSE o \in Objects : objs[o].state = "none" /\
                 \A q \in Objects : q < o => objs[q].state # "none"
CanCreate == \E o \in Objects : objs[o].state = "none"
Created(h, o) ==
    [h EXCEPT !.cbs[o] = [state |-> "live", strong_count |-> 1, weak_count |-> 0],
              !.objs[o] = [state |-> "live", deleted |-> 0],
              !.wp[MemberOf(o)] = NullPointer]

\* MySharedPtr::use_count(), MyWeakPtr::use_count()
use_count(s) == IF s.control_block # NULL THEN cbs[s.control_block].strong_count ELSE 0

\* A variant of expired() that looks at the pointer only.
expiredIgnoresCount(w) == w.control_block = NULL

\* MyWeakPtr::expired()
expired(w) ==
    IF w.control_block # NULL THEN cbs[w.control_block].strong_count = 0 ELSE TRUE

\* What reading or deleting a deleted control block does: the process dies, the
\* heap is damaged, or nothing shows.
UbOutcomes == {"trap", "damage", "unnoticed"}

\* The history keeps lock() with the weak pointer it was called on, that a
\* MySharedPtr was assigned to itself, that one was moved to another, that
\* the only owner of an object in a cycle of weak members was destroyed and
\* that the operation was one of MyWeakPtr; of any other operation only that
\* it ran.
OtherOp == [name |-> "other", a |-> 0, b |-> 0]
\* The operations that create, copy, move, assign or destroy a MyWeakPtr.
WeakOpNames == {"weak_null", "weak_from_shared", "weak_copy", "weak_move",
                "weak_copy_assign", "weak_move_assign", "weak_assign_shared",
                "weak_dtor"}
\* The object o and another one refer to each other through their weak_member,
\* and one MySharedPtr owns o.
InWeakCycle(o) ==
    /\ o # NULL /\ objs[o].state = "live" /\ cbs[o].strong_count = 1
    /\ LET q == wp[MemberOf(o)].control_block
       IN  /\ q # NULL /\ q # o /\ objs[q].state = "live"
           /\ wp[MemberOf(q)].control_block = o
Recorded(name, a, b) ==
    IF name = "lock" THEN [name |-> "lock", a |-> 0, b |-> b]
    ELSE IF name = "shared_dtor" /\ InWeakCycle(sp[a].ptr)
         THEN [name |-> "cycle_dtor", a |-> 0, b |-> sp[a].ptr]
    ELSE IF name \in {"shared_copy_assign", "shared_move_assign"} /\ a = b
         THEN [name |-> "self_assign", a |-> 0, b |-> 0]
    ELSE IF name \in {"shared_move", "shared_move_assign"}
         THEN [name |-> "move", a |-> 0, b |-> 0]
    ELSE IF name \in WeakOpNames THEN [name |-> "weak", a |-> 0, b |-> 0]
         ELSE OtherOp

\* The operation name(a, b) ends with the heap h and the shared pointers s.
Done(name, a, b, h, s) ==
    /\ sp' = s /\ wp' = h.wp /\ cbs' = h.cbs /\ objs' = h.objs
    /\ op' = Recorded(name, a, b)
    /\ IF h.ub
       THEN \E o \in UbOutcomes : /\ crashed' = (o = "trap")
                                  /\ damaged' = (damaged \/ o = "damage")
       ELSE UNCHANGED <<crashed, damaged>>
    /\ UNCHANGED <<conf, typed, outside, pools, mem, chunks, th, held, static, calls, hist,
                   unique, lists>>

Running == ~crashed /\ mode = "smart"

\* The next variable the program declares: which name it has does not matter.
SharedFresh(i) == ~sp[i].live /\ \A k \in SharedVars : k < i => sp[k].live
WeakFresh(w) == w \in WeakVars /\ ~wp[w].live /\ \A k \in WeakVars : k < w => wp[k].live
\* The program reaches the weak_member of an object through an owner: p->weak_member
Reachable(w) ==
    /\ wp[w].live
    /\ w \in WeakVars \/ \E k \in SharedVars : sp[k].live /\ sp[k].ptr # NULL
                                                 /\ w = MemberOf(sp[k].ptr)

\* MySharedPtr<TestClass> i;  MySharedPtr<TestClass> i(nullptr);
SharedNull(i) ==
    /\ Running /\ SharedFresh(i)
    /\ Done("shared_null", i, 0, Heap, [sp EXCEPT ![i] = NullPointer])

\* MySharedPtr<TestClass> i(new TestClass(..));
SharedNew(i) ==
    /\ Running /\ SharedFresh(i) /\ CanCreate
    /\ Done("shared_new", i, 0, Created(Heap, NewObject),
            [sp EXCEPT ![i] = PointerTo(NewObject)])

\* MySharedPtr<TestClass> i(j);
SharedCopy(i, j) ==
    /\ Running /\ SharedFresh(i) /\ sp[j].live
    /\ Done("shared_copy", i, j, AddStrong(Heap, sp[j].control_block),
            [sp EXCEPT ![i] = sp[j]])

\* MySharedPtr<TestClass> i(std::move(j));
SharedMove(i, j) ==
    /\ Running /\ SharedFresh(i) /\ sp[j].live
    /\ Done("shared_move", i, j, Heap, [sp EXCEPT ![i] = sp[j], ![j] = NullPointer])

\* i = j;
SharedCopyAssign(i, j) ==
    /\ Running /\ sp[i].live /\ sp[j].live
    /\ IF i = j
       THEN Done("shared_copy_assign", i, j, Heap, sp)
       ELSE Done("shared_copy_assign", i, j,
                 AddStrong(release(Heap, sp[i]), sp[j].control_block),
                 [sp EXCEPT ![i] = sp[j]])

\* i = std::move(j);
SharedMoveAssign(i, j) ==
    /\ Running /\ sp[i].live /\ sp[j].live
    /\ IF i = j
       THEN Done("shared_move_assign", i, j, Heap, sp)
       ELSE Done("shared_move_assign", i, j, release(Heap, sp[i]),
                 [sp EXCEPT ![i] = sp[j], ![j] = NullPointer])

\* i.reset();
SharedReset(i) ==
    /\ Running /\ sp[i].live
    /\ Done("shared_reset", i, 0, release(Heap, sp[i]), [sp EXCEPT ![i] = NullPointer])

\* i.reset(new TestClass(..));
SharedResetNew(i) ==
    /\ Running /\ sp[i].live /\ CanCreate
    /\ Done("shared_reset_new", i, 0, release(Created(Heap, NewObject), sp[i]),
            [sp EXCEPT ![i] = PointerTo(NewObject)])

\* i goes out of scope: ~MySharedPtr()
SharedDtor(i) ==
    /\ Running /\ sp[i].live
    /\ Done("shared_dtor", i, 0, release(Heap, sp[i]), [sp EXCEPT ![i] = NoPointer])

\* MySharedPtr<TestClass> i = w.lock();  MySharedPtr(const MyWeakPtr<T>& weak)
WeakLock(i, w) ==
    /\ Running /\ SharedFresh(i) /\ Reachable(w)
    /\ IF ~expired(wp[w])
       THEN Done("lock", i, w, AddStrong(Heap, wp[w].control_block),
                 [sp EXCEPT ![i] = wp[w]])
       ELSE Done("lock", i, w, Heap, [sp EXCEPT ![i] = NullPointer])

\* MyWeakPtr<TestClass> w;
WeakNull(w) ==
    /\ Running /\ WeakFresh(w)
    /\ Done("weak_null", w, 0, [Heap EXCEPT !.wp[w] = NullPointer], sp)

\* MyWeakPtr<TestClass> w = i;  MyWeakPtr(const MySharedPtr<T>& shared)
WeakFromShared(w, i) ==
    /\ Running /\ WeakFresh(w) /\ sp[i].live
    /\ Done("weak_from_shared", w, i,
            [AddWeak(Heap, sp[i].control_block) EXCEPT !.wp[w] = sp[i]], sp)

\* MyWeakPtr<TestClass> w = v;
WeakCopy(w, v) ==
    /\ Running /\ WeakFresh(w) /\ Reachable(v)
    /\ Done("weak_copy", w, v,
            [AddWeak(Heap, wp[v].control_block) EXCEPT !.wp[w] = wp[v]], sp)

\* MyWeakPtr<TestClass> w = std::move(v);
WeakMove(w, v) ==
    /\ Running /\ WeakFresh(w) /\ Reachable(v)
    /\ Done("weak_move", w, v, [Heap EXCEPT !.wp[w] = wp[v], !.wp[v] = NullPointer], sp)

\* w = v;
WeakCopyAssign(w, v) ==
    /\ Running /\ w \in WeakVars /\ wp[w].live /\ Reachable(v)
    /\ IF w = v
       THEN Done("weak_copy_assign", w, v, Heap, sp)
       ELSE Done("weak_copy_assign", w, v,
                 [AddWeak(WeakRelease(Heap, wp[w].control_block), wp[v].control_block)
                     EXCEPT !.wp[w] = wp[v]], sp)

\* w = std::move(v);
WeakMoveAssign(w, v) ==
    /\ Running /\ w \in WeakVars /\ wp[w].live /\ Reachable(v)
    /\ IF w = v
       THEN Done("weak_move_assign", w, v, Heap, sp)
       ELSE Done("weak_move_assign", w, v,
                 [WeakRelease(Heap, wp[w].control_block)
                     EXCEPT !.wp[w] = wp[v], !.wp[v] = NullPointer], sp)

\* w = i;  a temporary MyWeakPtr(i) is move-assigned to w and destroyed empty
WeakAssignShared(w, i) ==
    /\ Running /\ Reachable(w) /\ sp[i].live
    /\ Done("weak_assign_shared", w, i,
            [WeakRelease(AddWeak(Heap, sp[i].control_block), wp[w].control_block)
                EXCEPT !.wp[w] = sp[i]], sp)

\* w goes out of scope: ~MyWeakPtr()
WeakDtor(w) ==
    /\ Running /\ w \in WeakVars /\ wp[w].live
    /\ Done("weak_dtor", w, 0,
            [WeakRelease(Heap, wp[w].control_block) EXCEPT !.wp[w] = NoPointer], sp)

\* -------------------------------------------------------------- MyUniquePtr

\* MyUniquePtr variables of the program.
UniqueVars == 1..NUnique

\* A MyUniquePtr that does not exist, one that is null, one that holds object o.
NoUnique == [live |-> FALSE, ptr |-> NULL]
NullUnique == [live |-> TRUE, ptr |-> NULL]
UniqueTo(o) == [live |-> TRUE, ptr |-> o]

\* if(_ptr != nullptr) delete _ptr;  ~TestClass destroys a null weak_member.
DeleteOwned(u, p) ==
    IF p # NULL THEN [u EXCEPT ![p] = [state |-> "deleted", deleted |-> @.deleted + 1]]
    ELSE u

\* A variant of the move that leaves the pointer in the source as well.
TakeFromKeepsSource(u, i, j) == [u EXCEPT ![i] = u[j]]

\* _ptr = other._ptr; other._ptr = nullptr;  for this = i, other = j
TakeFrom(u, i, j) == [u EXCEPT ![i] = u[j], ![j] = NullUnique]

\* new TestClass(..): the first unused object
NewOwned == CHOOSE o \in Objects : uobjs[o].state = "none" /\
                \A q \in Objects : q < o => uobjs[q].state # "none"
CanOwn == \E o \in Objects : uobjs[o].state = "none"
Constructed(u, o) == [u EXCEPT ![o] = [state |-> "live", deleted |-> 0]]

\* The operation name(a, b) ends with the pointers u, the objects o and the raw
\* pointers r.
UniqueDone(name, a, b, u, o, r) ==
    /\ up' = u /\ uobjs' = o /\ raw' = r
    /\ uop' = [name |-> name, a |-> a, b |-> b]
    /\ UNCHANGED <<conf, typed, outside, pools, mem, chunks, th, held, crashed, static, calls,
                   hist, sp, wp, cbs, objs, op, damaged, lists>>

UniqueRunning == ~crashed /\ mode = "unique"

\* The next variable the program declares: which name it has does not matter.
UniqueFresh(i) == ~up[i].live /\ \A k \in UniqueVars : k < i => up[k].live

\* MyUniquePtr<TestClass> i;  MyUniquePtr<TestClass> i(nullptr);
UniqueNull(i) ==
    /\ UniqueRunning /\ UniqueFresh(i)
    /\ UniqueDone("null", i, 0, [up EXCEPT ![i] = NullUnique], uobjs, raw)

\* MyUniquePtr<TestClass> i(new TestClass(..));
UniqueNew(i) ==
    /\ UniqueRunning /\ UniqueFresh(i) /\ CanOwn
    /\ UniqueDone("new", i, 0, [up EXCEPT ![i] = UniqueTo(NewOwned)],
                  Constructed(uobjs, NewOwned), raw)

\* MyUniquePtr<TestClass> i(r);  for a pointer r that release() returned
UniqueFromRaw(i, r) ==
    /\ UniqueRunning /\ UniqueFresh(i) /\ r \in raw
    /\ UniqueDone("from_raw", i, r, [up EXCEPT ![i] = UniqueTo(r)], uobjs, raw \ {r})

\* MyUniquePtr<TestClass> i = std::move(j);
UniqueMove(i, j) ==
    /\ UniqueRunning /\ UniqueFresh(i) /\ up[j].live
    /\ UniqueDone("move", i, j, TakeFrom(up, i, j), uobjs, raw)

\* i = std::move(j);
UniqueMoveAssign(i, j) ==
    /\ UniqueRunning /\ up[i].live /\ up[j].live
    /\ IF i = j
       THEN UniqueDone("move_assign", i, j, up, uobjs, raw)
       ELSE UniqueDone("move_assign", i, j, TakeFrom(up, i, j),
                       DeleteOwned(uobjs, up[i].ptr), raw)

\* TestClass* r = i.release();
UniqueRelease(i) ==
    /\ UniqueRunning /\ up[i].live
    /\ UniqueDone("release", i, 0, [up EXCEPT ![i] = NullUnique], uobjs,
                  raw \cup ({up[i].ptr} \ {NULL}))

\* i.reset();
UniqueReset(i) ==
    /\ UniqueRunning /\ up[i].live
    /\ UniqueDone("reset", i, 0, [up EXCEPT ![i] = NullUnique],
                  DeleteOwned(uobjs, up[i].ptr), raw)

\* i.reset(new TestClass(..));  the new object is made before reset runs
UniqueResetNew(i) ==
    /\ UniqueRunning /\ up[i].live /\ CanOwn
    /\ UniqueDone("reset_new", i, 0, [up EXCEPT ![i] = UniqueTo(NewOwned)],
                  DeleteOwned(Constructed(uobjs, NewOwned), up[i].ptr), raw)

\* i.reset(r);  for a pointer r that release() returned
UniqueResetRaw(i, r) ==
    /\ UniqueRunning /\ up[i].live /\ r \in raw
    /\ UniqueDone("reset_raw", i, r, [up EXCEPT ![i] = UniqueTo(r)],
                  DeleteOwned(uobjs, up[i].ptr), raw \ {r})

\* i goes out of scope: ~MyUniquePtr()
UniqueDtor(i) ==
    /\ UniqueRunning /\ up[i].live
    /\ UniqueDone("dtor", i, 0, [up EXCEPT ![i] = NoUnique],
                  DeleteOwned(uobjs, up[i].ptr), raw)

\* delete r;  for a pointer r that release() returned
RawDelete(r) ==
    /\ UniqueRunning /\ r \in raw
    /\ UniqueDone("delete", 0, r, up, DeleteOwned(uobjs, r), raw \ {r})

\* ------------------------------------------------------------- SLinkedList

\* The SLinkedList variables of the program; the sentinel node head of list l
\* has the address l, the nodes from the allocator the addresses above.
ListVars == {1, 2}
HeapNodes == 3..(2 + MaxNodes)
ListNodes == ListVars \cup HeapNodes

\* No list has been constructed.
NoLists ==
    [next |-> [n \in ListNodes |-> NULL], size |-> [l \in ListVars |-> 0],
     tail |-> [l \in ListVars |-> NULL], live |-> {}, cons |-> {}, ub |-> FALSE,
     op |-> NoOp]

\* The node n can be read and written: the sentinel of a constructed list or a
\* node that has not been given back to the allocator.
Alive(L, n) == n \in L.cons \/ n \in L.live

\* The behaviour of the operation is undefined.
Undefined(L) == [L EXCEPT !.ub = TRUE]

\* Allocator::allocate(sizeof(Node))
NewNode(L) == CHOOSE n \in HeapNodes \ L.live : \A k \in HeapNodes \ L.live : n <= k
CanAllocate(L) == HeapNodes \ L.live # {}

\* Allocator::deallocate(n, sizeof(Node)) is defined for a node the allocator
\* gave out and has not got back.
CanFree(L, n) == n \in L.live

\* unsigned int _size; _size--;  A size field holds a representative of _size
\* modulo 2^32: -1 is the 2^32 - 1 that the decrement of 0 wraps to.
SizeMinusOne(n) == n - 1

\* SLinkedList() : _size{0}, head{&head, T()}, tail{&head} {}
DefaultCtor(L, l) ==
    [L EXCEPT !.next[l] = l, !.size[l] = 0, !.tail[l] = l, !.cons = @ \cup {l}]

\* ~SLinkedList(): for (it = &head; it->next != &head;) { unlink and free
\* it->next }  _size = 0; tail = &head;
RECURSIVE DtorLoop(_, _, _)
DtorLoop(L, l, fuel) ==
    LET nodeptr == L.next[l]
    IN  IF nodeptr = l THEN [L EXCEPT !.size[l] = 0, !.tail[l] = l]
        ELSE IF fuel = 0 \/ ~Alive(L, nodeptr) \/ ~CanFree(L, nodeptr) THEN Undefined(L)
        ELSE DtorLoop([L EXCEPT !.next[l] = L.next[nodeptr], !.live = @ \ {nodeptr}],
                      l, fuel - 1)

Dtor(L, l) == DtorLoop(L, l, MaxNodes + 1)

\* push_back(t): nodeptr->next = tail->next; tail->next = nodeptr; tail = nodeptr;
\* _size++;
push_back(L, l) ==
    LET nodeptr == NewNode(L)
        t == L.tail[l]
    IN  IF ~Alive(L, t) THEN Undefined(L)
        ELSE [L EXCEPT !.live = @ \cup {nodeptr},
                       !.next = [@ EXCEPT ![nodeptr] = L.next[t], ![t] = nodeptr],
                       !.tail[l] = nodeptr, !.size[l] = @ + 1]

\* push_front(t): nodeptr->next = head.next; head.next = nodeptr; _size++;
\* if (nodeptr->next == &head) tail = nodeptr;
push_front(L, l) ==
    LET nodeptr == NewNode(L)
    IN  [L EXCEPT !.live = @ \cup {nodeptr},
                  !.next = [@ EXCEPT ![nodeptr] = L.next[l], ![l] = nodeptr],
                  !.size[l] = @ + 1,
                  !.tail[l] = IF L.next[l] = l THEN nodeptr ELSE @]

\* pop_front(): nodeptr = head.next; head.next = nodeptr->next; free nodeptr;
\* _size--; if (_size == 0) tail = &head;
pop_front(L, l) ==
    LET nodeptr == L.next[l]
    IN  IF ~Alive(L, nodeptr) \/ ~CanFree(L, nodeptr) THEN Undefined(L)
        ELSE [L EXCEPT !.next[l] = L.next[nodeptr], !.live = @ \ {nodeptr},
                       !.size[l] = SizeMinusOne(@),
                       !.tail[l] = IF SizeMinusOne(L.size[l]) = 0 THEN l ELSE @]

\* it = head.next; while (it->next != tail) it = it->next;  NULL when the loop
\* reads a node that is gone or does not end.
RECURSIVE BeforeTail(_, _, _, _)
BeforeTail(L, it, tail, fuel) ==
    IF ~Alive(L, it) \/ fuel = 0 THEN NULL
    ELSE IF L.next[it] = tail THEN it
    ELSE BeforeTail(L, L.next[it], tail, fuel - 1)

\* _pop_back(): assert(size() > 0); it->next = tail->next; free tail; tail = it;
\* _size--;
pop_back(L, l) ==
    LET t == L.tail[l]
        it == BeforeTail(L, L.next[l], t, MaxNodes + 2)
    IN  IF it = NULL \/ ~Alive(L, t) \/ ~CanFree(L, t) THEN Undefined(L)
        ELSE [L EXCEPT !.next[it] = L.next[t], !.live = @ \ {t},
                       !.tail[l] = it, !.size[l] = SizeMinusOne(@)]

\* insert_after(pos, data): nodePtr->next = pos->next; pos->next = nodePtr;
\* _size++; if (nodePtr->next == &head) tail = nodePtr;
insert_after(L, l, pos) ==
    LET nodePtr == NewNode(L)
    IN  IF ~Alive(L, pos) THEN Undefined(L)
        ELSE [L EXCEPT !.live = @ \cup {nodePtr},
                       !.next = [@ EXCEPT ![nodePtr] = L.next[pos], ![pos] = nodePtr],
                       !.size[l] = @ + 1,
                       !.tail[l] = IF L.next[pos] = l THEN nodePtr ELSE @]

\* erase_after(it): nodeptr = it->next; if (nodeptr != &head) { it->next =
\* nodeptr->next; _size--; free nodeptr }  if (it->next == &head) tail = &head;
erase_after(L, l, it) ==
    IF ~Alive(L, it) THEN Undefined(L)
    ELSE LET nodeptr == L.next[it]
             erased == IF nodeptr = l THEN L
                       ELSE [L EXCEPT !.next[it] = L.next[nodeptr],
                                      !.size[l] = SizeMinusOne(@),
                                      !.live = @ \ {nodeptr}]
         IN  IF nodeptr # l /\ (~Alive(L, nodeptr) \/ ~CanFree(L, nodeptr)) THEN Undefined(L)
             ELSE IF erased.next[it] = l THEN [erased EXCEPT !.tail[l] = l]
             ELSE erased

\* _size = other._size; head.next = other.head.next; tail = other.tail;
\* tail->next = &head; other._size = 0; other.head.next = &other.head;
\* other.tail = &other.head;
TakeNodes(L, d, s) ==
    LET taken == [L EXCEPT !.size[d] = L.size[s], !.next[d] = L.next[s],
                           !.tail[d] = L.tail[s]]
    IN  IF ~Alive(taken, taken.tail[d]) THEN Undefined(taken)
        ELSE LET linked == [taken EXCEPT !.next[taken.tail[d]] = d]
             IN  [linked EXCEPT !.size[s] = 0, !.next[s] = s, !.tail[s] = s]

\* SLinkedList(SLinkedList&& other) : SLinkedList() { ... }
MoveCtor(L, d, s) == TakeNodes(DefaultCtor(L, d), d, s)

\* operator=(SLinkedList&& other): if (this != &other) { this->~SLinkedList(); ... }
\* The members the destructor call leaves are all assigned again before they
\* are read, so the result does not depend on what the call left in them.
MoveAssign(L, d, s) ==
    IF d = s THEN L
    ELSE LET emptied == Dtor(L, d)
         IN  IF emptied.ub THEN emptied ELSE TakeNodes(emptied, d, s)

\* The nodes of list l in the order of the next fields from head.next to the
\* sentinel; the walk gives up after more nodes than there are.
RECURSIVE ChainOfFrom(_, _, _, _)
ChainOfFrom(L, l, n, fuel) ==
    IF n = l \/ n = NULL \/ fuel = 0 THEN <<>>
    ELSE <<n>> \o ChainOfFrom(L, l, L.next[n], fuel - 1)

ChainOf(L, l) == ChainOfFrom(L, l, L.next[l], MaxNodes + 3)

\* The positions an iterator of list l can have: begin() .. end().
Positions(l) == {l} \cup {ChainOf(lists, l)[k] : k \in 1..Len(ChainOf(lists, l))}

\* The operation name(a, b) ends with the lists L.
ListDone(name, a, b, L) ==
    /\ lists' = [L EXCEPT !.op = [name |-> name, a |-> a, b |-> b]]
    /\ calls' = calls + 1
    /\ UNCHANGED <<conf, typed, outside, pools, mem, chunks, th, held, crashed, static, hist,
                   sp, wp, cbs, objs, op, damaged, unique>>

ListRunning ==
    ~crashed /\ ~lists.ub /\ mode \in {"list", "listmove"} /\ calls < MaxListOps

\* SLinkedList<T> l;
ListCtor(l) ==
    /\ ListRunning /\ l \notin lists.cons
    /\ ListDone("ctor", l, 0, DefaultCtor(lists, l))

\* l goes out of scope.
ListDtor(l) ==
    /\ ListRunning /\ l \in lists.cons
    /\ LET gone == Dtor(lists, l)
       IN  ListDone("dtor", l, 0, [gone EXCEPT !.cons = @ \ {l}])

\* l.push_back(t);
ListPushBack(l) ==
    /\ ListRunning /\ l \in lists.cons /\ CanAllocate(lists)
    /\ ListDone("push_back", l, 0, push_back(lists, l))

\* l.push_front(t);
ListPushFront(l) ==
    /\ ListRunning /\ l \in lists.cons /\ CanAllocate(lists)
    /\ ListDone("push_front", l, 0, push_front(lists, l))

\* if (!l.empty()) l.pop_front();
ListPopFront(l) ==
    /\ ListRunning /\ l \in lists.cons
    /\ lists.next[l] # l
    /\ ListDone("pop_front", l, 0, pop_front(lists, l))

\* if (l.size() > 0) l._pop_back();
ListPopBack(l) ==
    /\ ListRunning /\ l \in lists.cons
    /\ lists.size[l] # 0
    /\ ListDone("pop_back", l, 0, pop_back(lists, l))

\* l.insert_after(pos, t);  pos from l.begin() to l.end()
ListInsertAfter(l, pos) ==
    /\ ListRunning /\ l \in lists.cons /\ CanAllocate(lists)
    /\ pos \in Positions(l)
    /\ ListDone("insert_after", l, pos, insert_after(lists, l, pos))

\* l.erase_after(it);  it from l.begin() to l.end()
ListEraseAfter(l, it) ==
    /\ ListRunning /\ l \in lists.cons
    /\ it \in Positions(l)
    /\ ListDone("erase_after", l, it, erase_after(lists, l, it))

\* SLinkedList<T> d(std::move(s));
ListMoveCtor(d, s) ==
    /\ ListRunning /\ d \notin lists.cons /\ s \in lists.cons
    /\ ListDone("move_ctor", d, s, MoveCtor(lists, d, s))

\* d = std::move(s);
ListMoveAssign(d, s) ==
    /\ ListRunning /\ d \in lists.cons /\ s \in lists.cons
    /\ ListDone("move_assign", d, s, MoveAssign(lists, d, s))

\* ----------------------------------------------------------- specifications

InitCommon ==
    /\ mem = <<>>
    /\ chunks = {}
    /\ held = [t \in Threads |-> EmptyBag]
    /\ crashed = FALSE
    /\ constructed = 0
    /\ inited = FALSE
    /\ calls = 0
    /\ lastAlloc = NoAlloc
    /\ prevAlloc = NoAlloc
    /\ freed = <<>>
    /\ lastUse = NoUse
    /\ lastFree = NoFree
    /\ ctors = 0
    /\ dtors = 0
    /\ objects = {}
    /\ before = NoPair
    /\ released = <<>>
    /\ wild = FALSE
    /\ sp = [i \in SharedVars |-> NoPointer]
    /\ wp = [w \in AllWeak |-> NoPointer]
    /\ cbs = [c \in Objects |-> NoBlock]
    /\ objs = [o \in Objects |-> NoObject]
    /\ op = NoOp
    /\ damaged = FALSE
    /\ up = [i \in UniqueVars |-> NoUnique]
    /\ uobjs = [o \in Objects |-> NoObject]
    /\ raw = {}
    /\ uop = NoOp
    /\ lists = NoLists

\* One thread uses one pool: MemoryPool pool(BlockSize); pool.init(size); then
\* any sequence of allocate, deallocate and stores into held memory.
InitSeq ==
    /\ InitCommon
    /\ mode = "pool"
    /\ nthreads = 1
    /\ sizes = {}
    /\ table = "built"
    /\ \E B \in BlockSizes : pools = [i \in {0} |-> NewPool(B)]
    /\ th = [t \in Threads |-> IdleThread]

NextSeq ==
    \/ \E size \in SlotSizes : CallInit(size)
    \/ \E t \in Threads : CallAllocate(t)
    \/ \E t \in Threads : \E e \in BagToSet(held[t]) : CallDeallocate(t, e)
    \/ \E t \in Threads : \E e \in BagToSet(held[t]) : \E j \in UserInts(e.addr) :
          CallerWrites(t, e, j)
    \/ \E t \in Threads : PoolStep(t)

SpecSeq == InitSeq /\ [][NextSeq]_vars

\* One thread that has called init(8) on its pool and may call init again,
\* with zero or a multiple of 8, whenever no other call runs, also when the
\* pool has chunks and a free stack.
InitSizes == {0} \cup {n \in SlotSizes : n % SizeofSlot = 0}

InitReinit ==
    /\ InitCommon
    /\ mode = "reinit"
    /\ nthreads = 1
    /\ sizes = {}
    /\ table = "built"
    /\ \E B \in BlockSizes : pools = [i \in {0} |-> InitPool(NewPool(B), SLOT_BASE_SIZE)]
    /\ th = [t \in Threads |-> IdleThread]

NextReinit ==
    \/ \E size \in InitSizes : CallInitAny(size)
    \/ \E t \in Threads : ShareAllocate(t)
    \/ \E t \in Threads : \E e \in BagToSet(held[t]) : ShareDeallocate(t, e)
    \/ \E t \in Threads : \E j \in UserInts(th[t].slot) : ShareWrites(t, j)
    \/ \E t \in Threads : PoolStep(t)

SpecReinit == InitReinit /\ [][NextReinit]_vars

\* The same program up to the end of the pool's lifetime: the destructor runs
\* once, when no call is in flight.
InitLife ==
    /\ InitCommon
    /\ mode = "life"
    /\ nthreads = 1
    /\ sizes = {}
    /\ table = "built"
    /\ \E B \in BlockSizes : pools = [i \in {0} |-> NewPool(B)]
    /\ th = [t \in Threads |-> IdleThread]

NextLife ==
    \/ NextSeq
    \/ Destroy

SpecLife == InitLife /\ [][NextLife]_vars

\* TestConcurrency: the threads share one pool of 4096-byte chunks and 8-byte slots.
InitTest ==
    /\ InitCommon
    /\ mode = "test"
    /\ nthreads = NThreads
    /\ sizes = {}
    /\ table = "built"
    /\ pools = [i \in {0} |-> NewPool(DefaultBlockSize)]
    /\ th = [t \in Threads |-> [IdleThread EXCEPT !.pc = "unborn"]]

NextTest ==
    \/ TestInit
    \/ \E t \in Threads : TestAllocate(t)
    \/ \E t \in Threads : TestWrite(t)
    \/ \E t \in Threads : TestDeallocate(t)
    \/ \E t \in Threads : TestNext(t)
    \/ \E t \in Threads : PoolStep(t)

SpecTest == InitTest /\ [][NextTest]_vars

\* Threads that share one pool of 4096-byte chunks and 8-byte slots as those of
\* TestConcurrency do (MemoryPool pool(4096); pool.init(8);), each holding
\* several addresses at a time and deallocating only addresses it holds.
InitShare ==
    /\ InitCommon
    /\ mode = "share"
    /\ nthreads = NThreads
    /\ sizes = {}
    /\ table = "built"
    /\ pools = [i \in {0} |-> InitPool(NewPool(DefaultBlockSize), SLOT_BASE_SIZE)]
    /\ th = [t \in Threads |-> IdleThread]

NextShare ==
    \/ \E t \in Threads : ShareAllocate(t)
    \/ \E t \in Threads : \E e \in BagToSet(held[t]) : ShareDeallocate(t, e)
    \/ \E t \in Threads : \E j \in UserInts(th[t].slot) : ShareWrites(t, j)
    \/ \E t \in Threads : PoolStep(t)

SpecShare == InitShare /\ [][NextShare]_vars

\* Threads that call only allocate() on one shared pool with small chunks, so
\* that the free stack stays empty and the chunks run out while they race.
GrowSlotSizes == {n \in SlotSizes : n % SizeofSlot = 0}

InitGrow ==
    /\ InitCommon
    /\ mode = "grow"
    /\ nthreads = NThreads
    /\ sizes = {}
    /\ table = "built"
    /\ \E B \in BlockSizes, n \in GrowSlotSizes :
          pools = [i \in {0} |-> InitPool(NewPool(B), n)]
    /\ th = [t \in Threads |-> IdleThread]

NextGrow ==
    \/ \E t \in Threads : ShareAllocate(t)
    \/ \E t \in Threads : \E j \in UserInts(th[t].slot) : ShareWrites(t, j)
    \/ \E t \in Threads : PopLoad(t)
    \/ \E t \in Threads : Lock(t)
    \/ \E t \in Threads : AllocateNewBlock(t)
    \/ \E t \in Threads : Carve(t)
    \/ \E t \in Threads : Unlock(t)

SpecGrow == InitGrow /\ [][NextGrow]_vars

\* Threads that share the pool of TestConcurrency when only the first of them
\* gives addresses back: it allocates and deallocates, the others only allocate.
InitRecycle ==
    /\ InitCommon
    /\ mode = "recycle"
    /\ nthreads = NThreads
    /\ sizes = {}
    /\ table = "built"
    /\ pools = [i \in {0} |-> InitPool(NewPool(DefaultBlockSize), SLOT_BASE_SIZE)]
    /\ th = [t \in Threads |-> IdleThread]

NextRecycle ==
    \/ \E t \in Threads : ShareAllocate(t)
    \/ \E e \in BagToSet(held[1]) : ShareDeallocate(1, e)
    \/ \E t \in Threads : \E j \in UserInts(th[t].slot) : ShareWrites(t, j)
    \/ \E t \in Threads : PoolStep(t)

SpecRecycle == InitRecycle /\ [][NextRecycle]_vars

\* Two of these threads: the first allocates and deallocates, the second only
\* allocates.
InitAba ==
    /\ InitCommon
    /\ mode = "aba"
    /\ nthreads = 2
    /\ sizes = {}
    /\ table = "built"
    /\ pools = [i \in {0} |-> InitPool(NewPool(DefaultBlockSize), SLOT_BASE_SIZE)]
    /\ th = [t \in Threads |-> IdleThread]

SpecAba == InitAba /\ [][NextRecycle]_vars

\* The same threads when the owner of the pool lets its destructor run at any
\* time, without waiting for them; no call starts after that.
InitTeardown ==
    /\ InitCommon
    /\ mode = "teardown"
    /\ nthreads = NThreads
    /\ sizes = {}
    /\ table = "built"
    /\ pools = [i \in {0} |-> InitPool(NewPool(DefaultBlockSize), SLOT_BASE_SIZE)]
    /\ th = [t \in Threads |-> IdleThread]

NextTeardown ==
    \/ NextShare
    \/ Destroy
    \/ \E t \in Threads : TouchReleased(t)

SpecTeardown == InitTeardown /\ [][NextTeardown]_vars

\* One step of thread t of TestConcurrency.
ThreadStep(t) ==
    \/ TestAllocate(t) \/ TestWrite(t) \/ TestDeallocate(t) \/ TestNext(t)
    \/ PoolStep(t)

\* TestConcurrency on threads the scheduler keeps running: a std::thread that
\* can take its next step eventually takes it, and a compare_exchange_weak
\* that could succeed again and again does not fail spuriously for ever.
SpecTestFair ==
    /\ SpecTest
    /\ \A t \in Threads : /\ WF_vars(ThreadStep(t))
                          /\ SF_vars(PopCasOk(t))
                          /\ SF_vars(PushCasOk(t))

NextRouter ==
    \/ InitMemoryPool
    \/ \E t \in Threads : \E size \in sizes : UseMemory(t, size)
    \/ \E t \in Threads : \E e \in FreeArgs(t) : FreeMemory(t, e)
    \/ \E t \in Threads : GetMemoryPool(t)
    \/ \E t \in Threads : ConstructTable(t)
    \/ \E t \in Threads : Deallocate(t)
    \/ \E t \in Threads : \E e \in BagToSet(held[t]) : \E j \in UserInts(e.addr) :
          CallerWrites(t, e, j)
    \/ \E t \in Threads : PoolStep(t)

\* One thread calls the router with one size, 0..MaxReq, with or without
\* initMemoryPool() somewhere before, between or after its calls.
InitRoute ==
    /\ InitCommon
    /\ mode = "router"
    /\ nthreads = 1
    /\ \E size \in 0..MaxReq : sizes = {size}
    /\ table = "none"
    /\ pools = <<>>
    /\ th = [t \in Threads |-> IdleThread]

SpecRoute == InitRoute /\ [][NextRouter]_vars

\* One thread calls the router with two sizes of different classes, so that two
\* pools of the table are in use in one run.
SizePairs == {{8, 9}, {1, 512}, {20, 40}}

InitPair ==
    /\ InitCommon
    /\ mode = "router"
    /\ nthreads = 1
    /\ sizes \in SizePairs
    /\ table = "none"
    /\ pools = <<>>
    /\ th = [t \in Threads |-> IdleThread]

SpecPair == InitPair /\ [][NextRouter]_vars

\* Several threads call the router with the sizes of ReqSizes.
InitRouter ==
    /\ InitCommon
    /\ mode = "router"
    /\ nthreads = NThreads
    /\ sizes = ReqSizes
    /\ table = "none"
    /\ pools = <<>>
    /\ th = [t \in Threads |-> IdleThread]

SpecRouter == InitRouter /\ [][NextRouter]_vars

\* One thread creates and destroys objects of one class T through newElement<T>
\* and deleteElement<T>, with or without initMemoryPool() before.
InitTyped ==
    /\ InitCommon
    /\ mode = "typed"
    /\ nthreads = 1
    /\ \E size \in TypeSizes : sizes = {size}
    /\ table = "none"
    /\ pools = <<>>
    /\ th = [t \in Threads |-> IdleThread]

NextTyped ==
    \/ InitMemoryPool
    \/ \E t \in Threads : \E size \in sizes : NewElement(t, size)
    \/ \E t \in Threads : \E size \in sizes : UseMemory(t, size)
    \/ \E t \in Threads : Construct(t)
    \/ \E t \in Threads :
          \E e \in BagToSet(held[t]) \cup {[addr |-> NULL, size |-> s] : s \in sizes} :
             DeleteElement(t, e)
    \/ \E t \in Threads : FreeMemory(t, [addr |-> th[t].slot, size |-> th[t].size])
    \/ \E t \in Threads : GetMemoryPool(t)
    \/ \E t \in Threads : ConstructTable(t)
    \/ \E t \in Threads : Deallocate(t)
    \/ \E t \in Threads : PoolStep(t)

SpecTyped == InitTyped /\ [][NextTyped]_vars

\* Sizes a lax caller asks for.
LaxSizes == {0, 8, 9, 512, 513}

\* One thread calls the router with one size, and also passes null pointers
\* and zero sizes.
InitLax ==
    /\ InitCommon
    /\ mode = "lax"
    /\ nthreads = 1
    /\ \E size \in LaxSizes : sizes = {size}
    /\ table = "none"
    /\ pools = <<>>
    /\ th = [t \in Threads |-> IdleThread]

NextLax ==
    \/ InitMemoryPool
    \/ \E t \in Threads : \E size \in sizes : UseMemory(t, size)
    \/ \E t \in Threads : \E e \in FreeArgs(t) : FreeMemory(t, e)
    \/ \E t \in Threads : \E i \in {0, MEMORY_POOL_NUM - 1} : DeallocateNull(t, i)
    \/ \E t \in Threads : \E s \in sizes : DeleteElement(t, [addr |-> NULL, size |-> s])
    \/ \E t \in Threads : GetMemoryPool(t)
    \/ \E t \in Threads : ConstructTable(t)
    \/ \E t \in Threads : Deallocate(t)
    \/ \E t \in Threads : StrayPool(t)
    \/ \E t \in Threads : PoolStep(t)

SpecLax == InitLax /\ [][NextLax]_vars


\* The smart-pointer program: one thread runs any sequence of the operations of
\* MySharedPtr and MyWeakPtr on its variables and on the weak_member of the
\* objects that are alive.
InitSmart ==
    /\ InitCommon
    /\ mode = "smart"
    /\ nthreads = 1
    /\ sizes = {}
    /\ table = "none"
    /\ pools = <<>>
    /\ th = [t \in Threads |-> IdleThread]

NextSmart ==
    \/ \E i \in SharedVars : SharedNull(i) \/ SharedNew(i) \/ SharedReset(i)
                                \/ SharedResetNew(i) \/ SharedDtor(i)
    \/ \E i, j \in SharedVars : SharedCopy(i, j) \/ SharedMove(i, j)
                                \/ SharedCopyAssign(i, j) \/ SharedMoveAssign(i, j)
    \/ \E i \in SharedVars, w \in AllWeak : WeakLock(i, w) \/ WeakFromShared(w, i)
                                              \/ WeakAssignShared(w, i)
    \/ \E w \in AllWeak : WeakNull(w) \/ WeakDtor(w)
    \/ \E w, v \in AllWeak : WeakCopy(w, v) \/ WeakMove(w, v)
                             \/ WeakCopyAssign(w, v) \/ WeakMoveAssign(w, v)

SpecSmart == InitSmart /\ [][NextSmart]_vars

\* The MyUniquePtr program: one thread runs any sequence of the operations of
\* MyUniquePtr on its variables, on new objects and on pointers that release()
\* returned.
InitUnique ==
    /\ InitCommon
    /\ mode = "unique"
    /\ nthreads = 1
    /\ sizes = {}
    /\ table = "none"
    /\ pools = <<>>
    /\ th = [t \in Threads |-> IdleThread]

NextUnique ==
    \/ \E i \in UniqueVars : UniqueNull(i) \/ UniqueNew(i) \/ UniqueRelease(i)
                                \/ UniqueReset(i) \/ UniqueResetNew(i) \/ UniqueDtor(i)
    \/ \E i, j \in UniqueVars : UniqueMove(i, j) \/ UniqueMoveAssign(i, j)
    \/ \E i \in UniqueVars, r \in Objects : UniqueFromRaw(i, r) \/ UniqueResetRaw(i, r)
    \/ \E r \in Objects : RawDelete(r)

SpecUnique == InitUnique /\ [][NextUnique]_vars

\* A program that works on two SLinkedLists with the six operations that
\* change one list.
InitList ==
    /\ InitCommon
    /\ mode = "list"
    /\ nthreads = 1
    /\ sizes = {}
    /\ table = "none"
    /\ pools = <<>>
    /\ th = [t \in Threads |-> IdleThread]

NextList ==
    \/ \E l \in ListVars : ListCtor(l)
    \/ \E l \in ListVars : ListPushBack(l)
    \/ \E l \in ListVars : ListPushFront(l)
    \/ \E l \in ListVars : ListPopFront(l)
    \/ \E l \in ListVars : ListPopBack(l)
    \/ \E l \in ListVars : \E pos \in ListNodes : ListInsertAfter(l, pos)
    \/ \E l \in ListVars : \E it \in ListNodes : ListEraseAfter(l, it)

SpecList == InitList /\ [][NextList]_vars

\* A program that fills two SLinkedLists from both ends, empties them from the
\* front, moves one into the other and lets them go out of scope.
InitListMove ==
    /\ InitCommon
    /\ mode = "listmove"
    /\ nthreads = 1
    /\ sizes = {}
    /\ table = "none"
    /\ pools = <<>>
    /\ th = [t \in Threads |-> IdleThread]

NextListMove ==
    \/ \E l \in ListVars : ListCtor(l)
    \/ \E l \in ListVars : ListDtor(l)
    \/ \E l \in ListVars : ListPushBack(l)
    \/ \E l \in ListVars : ListPushFront(l)
    \/ \E l \in ListVars : ListPopFront(l)
    \/ \E d, s \in ListVars : ListMoveCtor(d, s)
    \/ \E d, s \in ListVars : ListMoveAssign(d, s)

SpecListMove == InitListMove /\ [][NextListMove]_vars

\* ------------------------------------------------------------------ properties

\* The address a lies in the data area of a chunk of pool i with room for n bytes.
InChunkOf(i, a, n) ==
    \E c \in chunks :
        c.owner = i /\ c.base + SizeofSlot <= a /\ a + n <= c.base + c.size

\* The least q with q * d >= n.
CeilDiv(n, d) == IF n % d = 0 THEN n \div d ELSE (n \div d) + 1

\* The program counters of a thread inside allocate() or deallocate().
PoolPcs ==
    {"pop_load", "pop_next", "pop_cas", "lock", "check", "carve", "unlock",
     "dealloc", "push_load", "push_store", "push_cas"}

\* C1: when the threads of TestConcurrency each run allocate, write, deallocate
\* on one shared pool, the process does not die and every address allocate()
\* returns lies inside a chunk of the pool, a whole slot before the chunk's end.
C1_ConcurrentOpsComplete ==
    /\ ~crashed
    /\ lastAlloc.path # "none" => InChunkOf(0, lastAlloc.addr, pools[0].SlotSize_)

\* C2: a single thread gets back the addresses it deallocated, newest first:
\* while deallocated addresses wait on the free stack, allocate() returns the
\* one deallocated last.
C2_LifoReuse == lastAlloc.expect # NULL => lastAlloc.addr = lastAlloc.expect

\* C3: useMemory(size), 1 <= size <= MAX_SLOT_SIZE, goes to the pool of index
\* ceil(size / 8) - 1, an index in 0..63; once the pools are initialised that
\* pool's slot size is (index + 1) * 8, at least size and less than size + 8,
\* and the region returned holds size bytes.
C3_UseMemoryIndex ==
    /\ lastUse.size \in 1..MAX_SLOT_SIZE => lastUse.kind = "pool"
    /\ lastUse.kind = "pool" =>
          /\ lastUse.size \in 1..MAX_SLOT_SIZE
          /\ lastUse.index = CeilDiv(lastUse.size, 8) - 1
          /\ lastUse.index \in 0..63
          /\ lastUse.inited =>
                /\ lastUse.slot = (lastUse.index + 1) * 8
                /\ lastUse.slot >= lastUse.size
                /\ lastUse.slot < lastUse.size + 8
                /\ InChunkOf(lastUse.index, lastUse.addr, lastUse.size)

C3_Witness ==
    /\ lastUse.kind = "pool" /\ lastUse.inited
    /\ lastUse.size = 505 /\ lastUse.index = 63 /\ lastUse.addr # NULL

\* C4: useMemory(512) is served by pool 63; useMemory of more than 512 bytes is
\* served by operator new and changes neither a pool nor the pool table;
\* useMemory(0) returns a null pointer and changes neither a pool, the pool
\* table nor the heap.
C4_Boundaries ==
    [][lastUse'.seq # lastUse.seq =>
          /\ lastUse'.size = 512 => lastUse'.kind = "pool" /\ lastUse'.index = 63
          /\ lastUse'.size > 512 =>
                /\ lastUse'.kind = "sys"
                /\ [base |-> lastUse'.addr, size |-> lastUse'.size, owner |-> SysOwner]
                      \in chunks' \ chunks
                /\ pools' = pools /\ table' = table /\ constructed' = constructed
          /\ lastUse'.size = 0 =>
                /\ lastUse'.kind = "null" /\ lastUse'.addr = NULL
                /\ pools' = pools /\ table' = table /\ constructed' = constructed
                /\ chunks' = chunks]_vars

C4_Witness ==
    /\ lastUse.kind = "sys" /\ lastUse.size = 513 /\ lastUse.addr # NULL
    /\ inited /\ constructed = 1

\* C5: freeMemory(ptr, size) goes where useMemory(size) went: for size >= 1 a
\* single thread that frees what useMemory(size) returned gets the same address
\* from its next useMemory(size), and a release of more than 512 bytes goes to
\* operator delete and touches no pool.
C5_FreeMatchesUse ==
    /\ [](/\ lastFree.kind = "pool" =>
                /\ lastFree.size \in 1..MAX_SLOT_SIZE
                /\ lastFree.index = CeilDiv(lastFree.size, 8) - 1
          /\ (lastFree.kind = "pool" /\ lastUse.seq = lastFree.seq + 1) =>
                lastUse.kind = "pool" /\ lastUse.addr = lastFree.ptr
          /\ lastFree.size > 512 => lastFree.kind = "sys")
    /\ [][(lastFree'.seq # lastFree.seq /\ lastFree'.size > 512) =>
             /\ pools' = pools /\ table' = table /\ ~crashed'
             /\ \E c \in chunks \ chunks' : c.base = lastFree'.ptr /\ c.owner = SysOwner]_vars

C5_Witness ==
    /\ lastFree.kind = "pool" /\ lastUse.kind = "pool"
    /\ lastUse.seq = lastFree.seq + 1
    /\ lastUse.addr = lastFree.ptr /\ lastUse.addr # NULL
    /\ lastUse.size = 9

\* C6, as stated: without initMemoryPool() the first useMemory reaches a pool of
\* slot size (index + 1) * 8 and returns a slot of it.
C6_NoSetupNeeded ==
    /\ ~inited => ~crashed
    /\ (lastUse.kind = "pool" /\ ~lastUse.inited) =>
          /\ lastUse.slot = (lastUse.index + 1) * 8
          /\ InChunkOf(lastUse.index, lastUse.addr, lastUse.slot)

\* C6, amended: when initMemoryPool() has completed, the first useMemory(size),
\* 1 <= size <= 512, reaches a pool of slot size (index + 1) * 8 and returns a
\* slot of it, and the process does not die; a useMemory that comes before it
\* finds slot size 0 and returns no slot.
C6_SetupNeeded ==
    /\ crashed => ~inited
    /\ (lastUse.kind = "pool" /\ lastUse.inited) =>
          /\ lastUse.slot = (lastUse.index + 1) * 8
          /\ InChunkOf(lastUse.index, lastUse.addr, lastUse.slot)
    /\ (lastUse.kind = "pool" /\ ~lastUse.inited) =>
          lastUse.slot = 0 /\ lastUse.addr = NULL

C6_Witness ==
    /\ lastUse.kind = "pool" /\ lastUse.inited /\ lastUse.seq = 1
    /\ lastUse.addr # NULL /\ lastUse.slot = (lastUse.index + 1) * 8

\* C7: the pool table is constructed exactly once, by the first getMemoryPool,
\* also when the first calls are concurrent; a thread works on a pool only when
\* the table is complete, and the table is never constructed again.
C7_TableConstructedOnce ==
    /\ constructed <= 1
    /\ table = "built" <=> constructed = 1
    /\ table = "built" => DOMAIN pools = 0..(MEMORY_POOL_NUM - 1)
    /\ \A t \in Live :
          th[t].pc \in PoolPcs => table = "built" /\ th[t].pool \in DOMAIN pools

C7_Witness ==
    /\ ~inited /\ constructed = 1
    /\ \A t \in Live : th[t].pc \in PoolPcs /\ th[t].cont = "pop_load"

\* C8: once initMemoryPool() has completed, the table has exactly 64 pools, pool
\* i has slot size (i + 1) * 8, the slot sizes are 8, 16, ... 512, and no later
\* call changes one.
C8_SlotSizesFixed ==
    inited =>
       /\ Cardinality(DOMAIN pools) = 64
       /\ \A i \in DOMAIN pools : i \in 0..63 /\ pools[i].SlotSize_ = (i + 1) * 8
       /\ {pools[i].SlotSize_ : i \in DOMAIN pools} = {8 * k : k \in 1..64}

C8_Witness ==
    /\ inited /\ calls = MaxRaceCalls
    /\ lastUse.kind = "pool" /\ lastUse.inited /\ lastFree.kind = "pool"
    /\ \E i \in DOMAIN pools : pools[i].freeList_ # NULL

\* C9: when the slot size is 8 or a power of two, every address allocate()
\* returns - first slot of a chunk, bump slot or reused slot - is a multiple of
\* the slot size.
C9_SlotsAligned ==
    (lastAlloc.path # "none" /\ pools[0].SlotSize_ \in {1, 2, 4, 8, 16, 32, 64})
        => lastAlloc.addr % pools[0].SlotSize_ = 0

\* C10: two bump allocations in a row from the same chunk, no deallocate in
\* between, return addresses exactly one slot size apart, whatever slot size
\* the pool was initialised with.
C10_BumpStride ==
    (/\ lastAlloc.path = "bump" /\ prevAlloc.path = "bump"
     /\ lastAlloc.block = prevAlloc.block)
        => lastAlloc.addr - prevAlloc.addr = pools[0].SlotSize_

\* The slots on the free stack of pool i, from the head along the next fields;
\* the walk gives up after more slots than memory has words.
RECURSIVE ChainFrom(_, _)
ChainFrom(a, fuel) ==
    IF a = NULL \/ fuel = 0 \/ a \notin DOMAIN mem THEN <<>>
    ELSE <<a>> \o ChainFrom(mem[a], fuel - 1)

FreeChain(i) == ChainFrom(pools[i].freeList_, Cardinality(DOMAIN mem) + 1)

\* How often the address a is on the free stack of pool i.
TimesFree(i, a) ==
    Cardinality({k \in 1..Len(FreeChain(i)) : FreeChain(i)[k] = a})

\* The last two calls of the thread were newElement<T>, which returned an
\* object, and deleteElement<T> of that object, which has returned.
PairDone ==
    /\ mode = "typed" /\ \A t \in Live : th[t].pc = "idle"
    /\ lastFree.kind = "pool" /\ lastFree.seq = calls
    /\ lastUse.kind = "pool" /\ lastUse.seq = calls - 1
    /\ lastUse.addr = lastFree.ptr /\ lastUse.addr # NULL

\* C11: newElement<T>(x) followed immediately by deleteElement<T>(p) runs one
\* constructor and one destructor of T, leaves the slot exactly once on the
\* free stack of the pool for sizeof(T), with no object alive in it, and the
\* caller holds the same addresses as before the pair.
C11_TypedRoundTrip ==
    PairDone =>
       /\ ctors = before.ctors + 1
       /\ dtors = before.dtors + 1
       /\ lastFree.index = CeilDiv(lastFree.size, 8) - 1
       /\ lastUse.index = lastFree.index
       /\ TimesFree(lastFree.index, lastFree.ptr) = 1
       /\ lastFree.ptr \notin objects
       /\ {h.addr : h \in BagToSet(held[1])} \ {NULL} = before.out

C11_Witness ==
    /\ PairDone /\ before.out # {} /\ ctors = 2 /\ dtors = 1
    /\ lastFree.size = 20

\* The ways a release call ends without touching a pool.
NoopKinds == {"null", "nullptr", "skip"}

\* C12: deallocate(nullptr), freeMemory(nullptr, size) for any size and
\* deleteElement<T>(nullptr) are no-ops: a null pointer ends the call, is never
\* pushed, and the call runs no destructor and changes no pool, no chunk and no
\* word of memory.
C12_NullIsNoop ==
    /\ [](/\ \A t \in Live :
                th[t].pc \in {"push_load", "push_store", "push_cas"} => th[t].slot # NULL
          /\ (lastFree.kind # "none" /\ lastFree.ptr = NULL) => lastFree.kind \in NoopKinds)
    /\ [][(lastFree' # lastFree /\ lastFree'.ptr = NULL) =>
             /\ pools' = pools /\ chunks' = chunks /\ mem' = mem
             /\ dtors' = dtors /\ objects' = objects /\ freed' = freed
             /\ crashed' = crashed /\ wild' = wild]_vars

C12_Witness ==
    /\ inited /\ lastFree.kind = "nullptr" /\ lastFree.index = 63
    /\ \E i \in DOMAIN pools : pools[i].freeList_ # NULL

\* C13: freeMemory(ptr, 0) with a non-null ptr is a no-op: it names no pool -
\* no index outside 0..63 reaches getMemoryPool - runs on no storage outside
\* the pool table and changes no pool.
C13_ZeroSizeFreeIsNoop ==
    /\ \A t \in Live :
          th[t].pc \in {"get_pool", "construct", "stray"} => th[t].pool \in 0..63
    /\ ~wild
    /\ (lastFree.kind # "none" /\ lastFree.size = 0) => lastFree.kind \in NoopKinds

\* allocate() has returned and no other call on the pool has started since.
JustReturned == lastAlloc.fresh /\ \A t \in Live : th[t].pc = "idle"

C15_FreeChainWellFormed ==
    LET chain == FreeChain(0)
        n == Len(chain)
    IN  /\ pools[0].freeList_ # NULL => n >= 1
        /\ \A k \in 1..n : InChunkOf(0, chain[k], SizeofSlot)
        /\ \A k, l \in 1..n : chain[k] = chain[l] => k = l
        /\ n >= 1 => mem[chain[n]] = NULL

\* The pool has been destroyed.
Destroyed == \A t \in Live : th[t].pc = "destroyed"

\* C17: for a pool initialised once before its first allocate and destroyed
\* with no call in flight, the destructor releases every chunk the pool
\* acquired exactly once, in the order of the header links from the newest
\* chunk to the oldest, stops at the empty link, and releases nothing else.
C17_DestructorReleasesChunks ==
    /\ [](Destroyed => /\ ~crashed
                       /\ BlocksOf(0) = {}
                       /\ \A k, l \in 1..Len(released) : released[k] = released[l] => k = l)
    /\ [][(Destroyed' /\ ~Destroyed) =>
             /\ {released'[k] : k \in 1..Len(released')} = BlocksOf(0)
             /\ Len(released') = Cardinality(BlocksOf(0))
             /\ Len(released') >= 1 => /\ released'[1] = pools[0].firstBlock_
                                       /\ mem[released'[Len(released')]] = NULL
             /\ \A k \in 1..(Len(released') - 1) :
                   /\ released'[k + 1] = mem[released'[k]]
                   /\ released'[k + 1] < released'[k]
             /\ Len(released') = 0 => pools[0].firstBlock_ = NULL]_vars

C17_Witness ==
    /\ Destroyed /\ Len(released) >= 2
    /\ pools[0].freeList_ # NULL
    /\ \E t \in Live : held[t] # EmptyBag

\* C16: between init and the destructor no step of allocate() or deallocate()
\* releases a chunk: the set of chunks only grows and nothing is given to
\* operator delete; a deallocated slot is the head of the free stack when
\* deallocate() returns, and the head changes otherwise only when allocate()
\* returns the slot that was the head.
C16_ChunksRetained ==
    [][~Destroyed' =>
         LET pushed == {t \in Live : th[t].pc = "push_cas" /\ th'[t].pc = "idle"}
         IN  /\ chunks \subseteq chunks'
             /\ released' = released
             /\ \A t \in pushed : /\ pools'[0].freeList_ = th[t].slot
                                  /\ mem'[th[t].slot] = pools[0].freeList_
             /\ (pushed = {} /\ pools'[0].freeList_ # pools[0].freeList_)
                    => /\ pools[0].freeList_ # NULL
                       /\ lastAlloc'.fresh /\ lastAlloc'.path = "pop"
                       /\ lastAlloc'.addr = pools[0].freeList_]_vars

C16_Witness ==
    /\ ~Destroyed /\ Cardinality(BlocksOf(0)) >= 2
    /\ lastAlloc.fresh /\ lastAlloc.path = "pop"
    /\ pools[0].freeList_ # NULL
    /\ \E c \in chunks : /\ c.base # pools[0].firstBlock_
                          /\ c.base < lastAlloc.addr
                          /\ lastAlloc.addr < c.base + c.size

\* The program counters of a thread inside popFreeList or pushFreeList.
StackPcs == {"pop_load", "pop_next", "pop_cas", "push_load", "push_store", "push_cas"}

\* C18: the free stack is lock-free: with finitely many operations on fairly
\* scheduled threads every pushFreeList and every popFreeList that has started
\* returns.
C18_StackOpsTerminate ==
    \A t \in Threads : (th[t].pc \in StackPcs) ~> (th[t].pc \notin StackPcs)

\* The MySharedPtr variables that own control block c.
Owners(c) == {i \in SharedVars : sp[i].live /\ sp[i].control_block = c}

\* C19: use_count() of every MySharedPtr is the number of live MySharedPtr
\* that share its control block, whatever operations ran; a null MySharedPtr
\* reports 0; assigning a MySharedPtr to itself changes no pointer and no
\* count; a move leaves the source null and the destination with the
\* source's object, whose count changes only by the ownership the destination
\* gave up.
C19_UseCountIsOwners ==
    /\ [](\A i \in SharedVars : sp[i].live =>
             /\ sp[i].ptr = NULL => use_count(sp[i]) = 0
             /\ sp[i].control_block # NULL =>
                   /\ cbs[sp[i].control_block].state = "live"
                   /\ use_count(sp[i]) = Cardinality(Owners(sp[i].control_block)))
    /\ [][/\ op'.name = "self_assign" => sp' = sp /\ cbs' = cbs /\ objs' = objs
          /\ op'.name = "move" =>
                \E i, j \in SharedVars :
                    /\ i # j /\ sp[j].live
                    /\ sp'[j] = NullPointer /\ sp'[i] = sp[j]
                    /\ sp[j].control_block # NULL =>
                          cbs'[sp[j].control_block].strong_count =
                              cbs[sp[j].control_block].strong_count
                                  - (IF i \in Owners(sp[j].control_block) THEN 1 ELSE 0)]_vars

C19_Witness ==
    /\ op.name = "move" /\ ~crashed
    /\ \E i, j \in SharedVars :
          /\ sp[j] = NullPointer
          /\ sp[i].live /\ sp[i].ptr # NULL /\ use_count(sp[i]) = 1
          /\ cbs[sp[i].control_block].weak_count >= 1
    /\ \E o \in Objects : objs[o].deleted = 1

\* C20: the managed object is deleted exactly once, in the step in which its
\* strong count drops to 0, whether or not weak pointers to it remain; from
\* then on every MyWeakPtr to it is expired() and lock() returns a null
\* MySharedPtr; before, expired() is false and lock() returns an owner of the
\* same object.
C20_DeletedOnceAtZero ==
    /\ [](/\ \A o \in Objects :
                /\ objs[o].deleted <= 1
                /\ objs[o].state = "deleted" <=> objs[o].deleted = 1
                /\ objs[o].state = "live" <=> (cbs[o].state = "live" /\ cbs[o].strong_count > 0)
          /\ \A w \in AllWeak : (wp[w].live /\ wp[w].control_block # NULL) =>
                (expired(wp[w]) <=> objs[wp[w].ptr].state = "deleted"))
    /\ [][/\ \A o \in Objects :
                (objs'[o].deleted # objs[o].deleted \/ (cbs[o].strong_count > 0
                                                       /\ cbs'[o].strong_count = 0))
                    => /\ cbs[o].strong_count > 0 /\ cbs'[o].strong_count = 0
                       /\ objs[o].deleted = 0 /\ objs'[o].deleted = 1
          /\ op'.name = "lock" =>
                \E i \in SharedVars :
                    /\ ~sp[i].live /\ sp'[i].live
                    /\ IF wp[op'.b].control_block # NULL /\ objs[wp[op'.b].ptr].state = "live"
                       THEN /\ sp'[i].ptr = wp[op'.b].ptr
                            /\ sp'[i].control_block = wp[op'.b].control_block
                            /\ objs'[wp[op'.b].ptr].state = "live"
                            /\ ~expired(wp[op'.b])
                       ELSE sp'[i] = NullPointer]_vars

C20_Witness ==
    /\ op.name = "lock" /\ ~crashed
    /\ wp[op.b].live /\ wp[op.b].control_block # NULL
    /\ objs[wp[op.b].ptr].deleted = 1 /\ expired(wp[op.b])
    /\ \E i \in SharedVars : sp[i] = NullPointer
    /\ \E o \in Objects : objs[o].state = "live" /\ cbs[o].weak_count >= 1

\* C21: a control block is deleted exactly once, in the step in which
\* strong_count and weak_count are both 0, and nothing reads or writes it
\* afterwards, in whatever order shared and weak pointers are destroyed, also
\* when the managed object's weak_member (to another object or to the object's
\* own control block) is destroyed inside the object's destructor.
C21_BlockDeletedOnceUntouched ==
    /\ ~crashed /\ ~damaged
    /\ \A c \in Objects :
          /\ cbs[c].state = "live" => cbs[c].strong_count + cbs[c].weak_count > 0
          /\ cbs[c].state = "deleted" => cbs[c].strong_count = 0 /\ cbs[c].weak_count = 0
    /\ \A i \in SharedVars : (sp[i].live /\ sp[i].control_block # NULL) =>
          cbs[sp[i].control_block].state = "live"
    /\ \A w \in AllWeak : (wp[w].live /\ wp[w].control_block # NULL) =>
          cbs[wp[w].control_block].state = "live"

\* C22: creating, copying, moving, assigning or destroying a MyWeakPtr leaves
\* every strong count, hence every use_count(), and every object as it was;
\* an object that no MySharedPtr owns is destroyed, also when the weak_member
\* of another object still refers to it: when the owner of an object in a cycle
\* of weak members is destroyed, the object is destroyed.
C22_WeakKeepsNothingAlive ==
    /\ [](\A o \in Objects : (objs[o].state = "live" /\ ~crashed) => Owners(o) # {})
    /\ [][/\ op'.name = "weak" =>
                /\ sp' = sp /\ objs' = objs
                /\ \A c \in Objects : cbs'[c].strong_count = cbs[c].strong_count
                /\ \A i \in SharedVars : sp[i].live => use_count(sp[i])' = use_count(sp[i])
          /\ op'.name = "cycle_dtor" => objs'[op'.b].state = "deleted"]_vars

C22_Witness ==
    /\ op.name = "cycle_dtor" /\ ~crashed
    /\ objs[op.b].state = "deleted" /\ Owners(op.b) = {}
    /\ cbs[op.b].state = "live" /\ cbs[op.b].weak_count = 1
    /\ \E q \in Objects : /\ q # op.b /\ objs[q].state = "live"
                          /\ wp[MemberOf(q)].control_block = op.b
                          /\ use_count(wp[MemberOf(q)]) = 0

\* The MyUniquePtr variables that hold object o.
UniqueOwners(o) == {i \in UniqueVars : up[i].live /\ up[i].ptr = o}

\* In this step delete ran once on object p (on none if p is null) and on no other.
DeletedOnly(p) ==
    \A o \in Objects : uobjs'[o].deleted = uobjs[o].deleted + (IF o = p THEN 1 ELSE 0)

\* C23: at most one MyUniquePtr holds an object, and no object is deleted
\* twice or held after its deletion; move construction and move assignment
\* give the destination the source's pointer and leave the source null; move
\* assignment and reset delete the object held before exactly once; release()
\* hands the pointer to the caller, leaves the MyUniquePtr null and deletes
\* nothing; the destructor deletes the held object, and nothing if the pointer
\* is null.
C23_UniqueOwnership ==
    /\ [](\A o \in Objects :
             /\ Cardinality(UniqueOwners(o)) + (IF o \in raw THEN 1 ELSE 0) <= 1
             /\ uobjs[o].deleted <= 1
             /\ (UniqueOwners(o) # {} \/ o \in raw) => uobjs[o].state = "live")
    /\ [][LET a == uop'.a
              b == uop'.b
          IN  /\ uop'.name = "move" =>
                    /\ up'[a] = up[b] /\ up'[b] = NullUnique /\ uobjs' = uobjs
              /\ (uop'.name = "move_assign" /\ a # b) =>
                    /\ up'[a] = up[b] /\ up'[b] = NullUnique /\ DeletedOnly(up[a].ptr)
              /\ (uop'.name = "move_assign" /\ a = b) => up' = up /\ uobjs' = uobjs
              /\ uop'.name \in {"reset", "reset_new", "reset_raw"} =>
                    /\ DeletedOnly(up[a].ptr)
                    /\ uop'.name = "reset" => up'[a] = NullUnique
                    /\ uop'.name = "reset_raw" => up'[a] = UniqueTo(b)
                    /\ uop'.name = "reset_new" =>
                          /\ up'[a].ptr # NULL /\ uobjs[up'[a].ptr].state = "none"
                          /\ uobjs'[up'[a].ptr].state = "live"
              /\ uop'.name = "release" =>
                    /\ up'[a] = NullUnique /\ uobjs' = uobjs
                    /\ raw' = raw \cup ({up[a].ptr} \ {NULL})
              /\ uop'.name = "dtor" =>
                    /\ ~up'[a].live /\ DeletedOnly(up[a].ptr)
                    /\ up[a].ptr # NULL => uobjs'[up[a].ptr].state = "deleted"]_vars

C23_Witness ==
    /\ uop.name = "move_assign" /\ uop.a # uop.b
    /\ up[uop.b] = NullUnique
    /\ up[uop.a].ptr # NULL /\ uobjs[up[uop.a].ptr].state = "live"
    /\ \E o \in Objects : uobjs[o].deleted = 1 /\ UniqueOwners(o) = {}

\* The addresses callers hold.
HeldAddrs == {e.addr : e \in UNION {BagToSet(held[t]) : t \in Live}}

\* No address is held twice (by two callers or twice by one) and no held
\* address is on the free stack.
HandedOutOnce ==
    /\ \A t, u \in Live : \A e \in BagToSet(held[t]), f \in BagToSet(held[u]) :
          e.addr = f.addr => (t = u /\ CopiesIn(e, held[t]) = 1)
    /\ \A k \in 1..Len(FreeChain(0)) : FreeChain(0)[k] \notin HeldAddrs

\* C24: with a slot size that is a multiple of 8 and threads that deallocate
\* only addresses they hold, no address is held by two callers at once and no
\* held address is reachable from the free-stack head: allocate() never returns
\* an address that is still outstanding.
C24_NoDoubleHandOut == mode = "share" => HandedOutOnce

\* Thread t is about to compare-and-swap the head with a successor that is no
\* longer the one stored in oldHead.
StalePop(t) ==
    /\ th[t].pc = "pop_cas"
    /\ th[t].oldHead \in DOMAIN mem /\ mem[th[t].oldHead] # th[t].newHead

\* The address a is a slot the pool has carved: a slot position of one of its
\* chunks, below the cursor if the chunk is the active one.
IsCarvedSlot(a) ==
    \E c \in chunks :
        LET n == pools[0].SlotSize_
            first == FirstSlotOf(c.base, n)
        IN  /\ first <= a /\ (a - first) % n = 0
            /\ a = first \/ a + n <= c.base + c.size
            /\ c.base = pools[0].firstBlock_ => a < pools[0].curSlot_

\* The slot the call of thread t has in its hands: carved and about to be
\* returned, or given to deallocate() and not pushed yet.
InHands(t) ==
    IF th[t].pc = "unlock" THEN {th[t].temp}
    ELSE IF th[t].pc \in {"push_load", "push_store", "push_cas"} THEN {th[t].slot}
    ELSE {}

\* The free stack is a chain of carved slots that ends with a null next field
\* and has no slot twice, and every slot is in one place only: held by one
\* caller (once), on the free stack, or in the hands of one running call.
SlotsInOnePlace ==
    LET chain == FreeChain(0)
        free == {chain[k] : k \in 1..Len(chain)}
        last == IF chain = <<>> THEN pools[0].freeList_ ELSE mem[chain[Len(chain)]]
        busy == UNION {InHands(t) : t \in Live}
    IN  /\ last = NULL
        /\ Cardinality(free) = Len(chain)
        /\ \A a \in free \cup HeldAddrs \cup busy : IsCarvedSlot(a)
        /\ \A t, u \in Live : \A e \in BagToSet(held[t]), f \in BagToSet(held[u]) :
              e.addr = f.addr => (t = u /\ CopiesIn(e, held[t]) = 1)
        /\ \A t, u \in Live : t # u => InHands(t) \cap InHands(u) = {}
        /\ free \cap HeldAddrs = {} /\ free \cap busy = {} /\ HeldAddrs \cap busy = {}

\* C25: popFreeList is open to ABA: its compare-and-swap succeeds when the
\* head is oldHead again although oldHead was popped and pushed back and the
\* successor read earlier is stale, and this is how a slot that a caller holds
\* or a running call has in its hands, or a word of caller data, gets onto the
\* free stack: a step that breaks "the free stack is a chain of carved slots
\* and every slot is in one place only" is such a compare-and-swap, which
\* installs the stale successor as the head.
C25_StalePopInstallsHeldSlot ==
    [][(SlotsInOnePlace /\ ~SlotsInOnePlace') =>
          \E t \in Live :
              /\ StalePop(t)
              /\ pools[0].freeList_ = th[t].oldHead
              /\ pools'[0].freeList_ = th[t].newHead
              /\ th'[t].pc # "pop_cas"]_vars

\* Thread 1 of the claim has popped A with the stale successor B: the head is B,
\* another thread holds B and has stored its data in B's first word.
C25_Witness ==
    /\ mode = "aba" /\ ~crashed
    /\ lastAlloc.path = "pop" /\ lastAlloc.fresh
    /\ pools[0].freeList_ # NULL /\ pools[0].freeList_ # lastAlloc.addr
    /\ \E e \in BagToSet(held[lastAlloc.thread]) : e.addr = lastAlloc.addr
    /\ \E u \in Live \ {lastAlloc.thread} : \E e \in BagToSet(held[u]) :
          /\ e.addr = pools[0].freeList_
          /\ pools[0].freeList_ \in DOMAIN mem
          /\ mem[pools[0].freeList_] \in UserInts(pools[0].freeList_)

\* C26: the pool does not wait for its users at teardown.  The destructor can
\* run while a thread is inside popFreeList with oldHead loaded, and that
\* thread then reads oldHead->next in a released chunk (the witness).  A
\* thread that is in no call has no pointer into the pool left in its locals,
\* after the destructor only calls that were in flight take steps, and when
\* none was in flight nothing faults.
C26_TeardownNeedsQuiescence ==
    /\ [](\A t \in Live : th[t].pc \in {"idle", "destroyed"} =>
             /\ th[t].oldHead = NULL /\ th[t].newHead = NULL
             /\ th[t].temp = NULL /\ th[t].slot = NULL)
    /\ [](Destroyed => ~crashed)
    /\ [][\A t \in Live : (TornDown /\ th'[t] # th[t]) =>
             th[t].pc \notin {"idle", "destroyed"}]_vars

C26_Witness ==
    /\ mode = "teardown" /\ TornDown /\ crashed
    /\ \A k, l \in 1..Len(released) : released[k] = released[l] => k = l
    /\ \E t \in Live : /\ th[t].pc = "pop_next"
                       /\ th[t].oldHead # NULL /\ InReleased(th[t].oldHead)

\* The program counters of a thread inside the block of allocate() that the
\* lock_guard covers.
LockedPcs == {"check", "carve", "unlock"}

\* C27: in allocate() and deallocate() the cursor, the boundary and the head of
\* the chunk list are written only by the thread that holds the mutex of the
\* pool; a thread is inside the guarded block exactly when it holds the mutex,
\* so at most one thread holds it and none holds it after allocate() has
\* returned; the head of the free stack changes only in a compare-and-swap
\* that found the head equal to the expected value.
C27_MutexGuardsGrowth ==
    /\ [](/\ \A t \in Live : th[t].pc \in LockedPcs =>
                pools[th[t].pool].mutexForBlock_ = t
          /\ \A i \in DOMAIN pools : pools[i].mutexForBlock_ # 0 =>
                /\ pools[i].mutexForBlock_ \in Live
                /\ th[pools[i].mutexForBlock_].pc \in LockedPcs
                /\ th[pools[i].mutexForBlock_].pool = i)
    /\ [][(pools' # pools /\ table' = table /\ inited' = inited) =>
             \A i \in DOMAIN pools :
                /\ (\/ pools'[i].curSlot_ # pools[i].curSlot_
                    \/ pools'[i].lastSlot_ # pools[i].lastSlot_
                    \/ pools'[i].firstBlock_ # pools[i].firstBlock_) =>
                      LET t == pools[i].mutexForBlock_
                      IN  /\ t \in Live /\ th[t].pool = i
                          /\ th[t].pc \in {"check", "carve"}
                          /\ th'[t] # th[t]
                          /\ pools'[i].mutexForBlock_ = t
                /\ pools'[i].freeList_ # pools[i].freeList_ =>
                      \E t \in Live :
                          /\ th[t].pool = i /\ th[t].pc \in {"pop_cas", "push_cas"}
                          /\ th'[t].pc \notin {"pop_cas", "push_cas"}
                          /\ pools[i].freeList_ = th[t].oldHead
                          /\ pools'[i].freeList_ = IF th[t].pc = "pop_cas"
                                                   THEN th[t].newHead ELSE th[t].slot
                /\ pools'[i].mutexForBlock_ # pools[i].mutexForBlock_ =>
                      \E t \in Live :
                          /\ th[t].pool = i
                          /\ \/ /\ th[t].pc = "lock" /\ th'[t].pc = "check"
                                /\ pools[i].mutexForBlock_ = 0
                                /\ pools'[i].mutexForBlock_ = t
                             \/ /\ th[t].pc = "unlock" /\ th'[t].pc \notin LockedPcs
                                /\ pools[i].mutexForBlock_ = t
                                /\ pools'[i].mutexForBlock_ = 0]_vars

\* A thread has acquired a chunk under the mutex while another waits for the
\* same mutex.
C27_Witness ==
    /\ ~crashed
    /\ \E t, u \in Live :
          /\ t # u /\ th[t].pc = "carve" /\ th[u].pc = "lock" /\ th[u].pool = th[t].pool
          /\ pools[th[t].pool].mutexForBlock_ = t
          /\ pools[th[t].pool].firstBlock_ # NULL
          /\ pools[th[t].pool].curSlot_ < pools[th[t].pool].lastSlot_

\* C28: pushFreeList and popFreeList never take the mutex: a thread inside
\* them can always take its next step, whoever holds the mutex, and its steps
\* leave every mutex as it is; a thread comes to the lock only from a pop that
\* found the free stack empty, never from deallocate(); and the steps a thread
\* takes while it holds the mutex neither load the free-stack head into its
\* locals nor change it.
C28_StackAndGrowthIndependent ==
    /\ [](~crashed => \A t \in Live : th[t].pc \in StackPcs => ENABLED PoolStep(t))
    /\ [][\A t \in Live : th'[t] # th[t] =>
             /\ th[t].pc \in StackPcs =>
                   \A i \in DOMAIN pools : pools'[i].mutexForBlock_ = pools[i].mutexForBlock_
             /\ (th'[t].pc = "lock" /\ th[t].pc # "lock") =>
                   /\ th[t].pc = "pop_load" /\ pools[th[t].pool].freeList_ = NULL
             /\ th[t].pc \in LockedPcs =>
                   /\ pools'[th[t].pool].freeList_ = pools[th[t].pool].freeList_
                   /\ th[t].oldHead = NULL /\ th'[t].oldHead = NULL
                   /\ th[t].newHead = NULL /\ th'[t].newHead = NULL]_vars

\* A deallocate() is about to succeed on a pool whose mutex another thread
\* holds for chunk growth.
C28_Witness ==
    /\ ~crashed
    /\ \E t, u \in Live :
          /\ t # u /\ th[u].pc \in {"check", "carve"} /\ pools[th[u].pool].mutexForBlock_ = u
          /\ th[t].pool = th[u].pool /\ th[t].pc = "push_cas"
          /\ pools[th[t].pool].freeList_ = th[t].oldHead

\* The program counters of a thread inside popFreeList.
PopPcs == {"pop_load", "pop_next", "pop_cas"}

\* C29: with one thread, the steps of popFreeList leave the cursor, the
\* boundary, the chunk list and the chunks as they are, and change the head
\* only when allocate() returns the slot that was the head; allocate() is
\* past popFreeList, on the bump path, only while the free stack is empty, and
\* the pop that found it empty did not change the head.
C29_PopFirstThenBump ==
    /\ [](\A t \in Live :
             /\ th[t].pc \in {"pop_next", "pop_cas"} =>
                   /\ th[t].oldHead # NULL /\ th[t].oldHead = pools[0].freeList_
             /\ th[t].pc \in {"lock"} \cup LockedPcs => pools[0].freeList_ = NULL)
    /\ [][\A t \in Live : (th[t].pc \in PopPcs /\ th'[t] # th[t]) =>
             /\ pools'[0].curSlot_ = pools[0].curSlot_
             /\ pools'[0].lastSlot_ = pools[0].lastSlot_
             /\ pools'[0].firstBlock_ = pools[0].firstBlock_
             /\ chunks' = chunks
             /\ th'[t].pc = "lock" => (pools[0].freeList_ = NULL /\ pools' = pools)
             /\ th'[t].pc \notin PopPcs \cup {"lock"} =>
                   /\ pools[0].freeList_ # NULL
                   /\ lastAlloc'.fresh /\ lastAlloc'.path = "pop"
                   /\ lastAlloc'.addr = pools[0].freeList_
             /\ pools'[0].freeList_ # pools[0].freeList_ => th'[t].pc \notin PopPcs]_vars

\* allocate() has returned the head of a free stack that held two slots, and
\* the cursor is where the last bump allocation left it.
C29_Witness ==
    /\ mode = "life" /\ ~crashed
    /\ lastAlloc.fresh /\ lastAlloc.path = "pop"
    /\ pools[0].freeList_ # NULL /\ pools[0].freeList_ # lastAlloc.addr
    /\ pools[0].firstBlock_ # NULL
    /\ \A t \in Live : th[t].pc = "idle"

\* The chunk list of the pool is empty, or no whole slot is left between the
\* cursor and the end of the chunk at the head of the list.
NoWholeSlotLeft(pool) ==
    \/ pool.firstBlock_ = NULL
    \/ pool.curSlot_ >= pool.firstBlock_ + pool.BlockSize_ - pool.SlotSize_ + 1

\* C30: a chunk is acquired only by the check under the mutex, one at a time,
\* and only when the pool has no chunk or no whole slot is left in the active
\* one; a check that finds a whole slot left, a slot ending at the end of the
\* chunk included, hands that slot out and acquires nothing; the check of the
\* first allocate() on an initialized pool acquires one chunk, and the rest of
\* that call none.
C30_GrowthOnlyWhenExhausted ==
    [][/\ th' = th => chunks' \subseteq chunks
       /\ \A t \in Live : th'[t] # th[t] =>
                /\ chunks' \ chunks # {} =>
                      /\ th[t].pc = "check" /\ pools[th[t].pool].mutexForBlock_ = t
                      /\ NoWholeSlotLeft(pools[th[t].pool])
                      /\ Cardinality(chunks' \ chunks) = 1 /\ chunks \subseteq chunks'
                      /\ \A c \in chunks' \ chunks :
                            /\ c.base = pools'[th[t].pool].firstBlock_
                            /\ c.size = pools[th[t].pool].BlockSize_
                /\ (th[t].pc = "check" /\ ~NoWholeSlotLeft(pools[th[t].pool])) =>
                      /\ chunks' = chunks
                      /\ th'[t].pc = "unlock"
                      /\ th'[t].temp = pools[th[t].pool].curSlot_
                /\ (th[t].pc = "check" /\ pools[th[t].pool].firstBlock_ = NULL) =>
                      /\ Cardinality(chunks' \ chunks) = 1
                      /\ th'[t].pc = "carve"
                /\ th[t].pc \in {"lock", "carve", "unlock"} => chunks' = chunks]_vars

\* allocate() has handed out, by the cursor, the slot that ends where the only
\* chunk of the pool ends.
C30_Witness ==
    /\ mode = "life" /\ ~crashed
    /\ lastAlloc.fresh /\ lastAlloc.path = "bump"
    /\ pools[0].SlotSize_ > 0 /\ pools[0].firstBlock_ # NULL
    /\ lastAlloc.addr + pools[0].SlotSize_ = pools[0].firstBlock_ + pools[0].BlockSize_
    /\ Cardinality(chunks) = 1
    /\ \A t \in Live : th[t].pc = "idle"

\* C31: every address allocate() returns from the bump path of an initialised
\* pool lies in the chunk it was carved from, after the chunk's header word
\* and a whole slot before the chunk's end.
C31_BumpSlotInsideChunk ==
    (lastAlloc.fresh /\ lastAlloc.path = "bump" /\ pools[0].SlotSize_ > 0)
        => /\ lastAlloc.block + SizeofSlot <= lastAlloc.addr
           /\ lastAlloc.addr + pools[0].SlotSize_ <= lastAlloc.block + pools[0].BlockSize_

\* The slots allocate() carves from the chunk c of a pool with slot size n: the
\* first one, and every further one that ends inside the chunk.
SlotsOf(c, n) ==
    {a \in FirstSlotOf(c.base, n)..(c.base + c.size) :
        /\ (a - FirstSlotOf(c.base, n)) % n = 0
        /\ a = FirstSlotOf(c.base, n) \/ a + n <= c.base + c.size}

\* C32: while threads only allocate from a shared pool whose slot size is a
\* multiple of 8, no address is handed out twice, a chunk is acquired only by
\* the holder of the mutex and only when the cursor it sees then has reached
\* the boundary, and every chunk but the active one has had all its slots
\* handed out: threads that found the chunk exhausted together share the one
\* chunk the first of them acquired.
C32_RacingAllocationsShareGrowth ==
    /\ [](/\ pools[0].freeList_ = NULL
          /\ \A t, u \in Live : \A e \in BagToSet(held[t]), f \in BagToSet(held[u]) :
                e.addr = f.addr => (t = u /\ CopiesIn(e, held[t]) = 1)
          /\ \A t \in Live : th[t].pc = "unlock" => th[t].temp \notin HeldAddrs
          /\ \A c \in chunks :
                c.base # pools[0].firstBlock_ => SlotsOf(c, pools[0].SlotSize_) \subseteq HeldAddrs)
    /\ [][chunks' # chunks =>
             \E t \in Live :
                /\ th[t].pc = "check" /\ pools[0].mutexForBlock_ = t
                /\ pools[0].curSlot_ >= pools[0].lastSlot_
                /\ Cardinality(chunks') = Cardinality(chunks) + 1]_vars

\* One thread has just acquired a second chunk and holds the mutex while
\* another, which found the free stack empty too, waits for the mutex; the new
\* chunk has room for both.
C32_Witness ==
    /\ mode = "grow" /\ ~crashed
    /\ Cardinality(chunks) = 2
    /\ \E t, u \in Live :
          /\ t # u
          /\ th[t].pc = "carve" /\ pools[0].mutexForBlock_ = t
          /\ th[u].pc = "lock"
          /\ pools[0].curSlot_ = FirstSlotOf(pools[0].firstBlock_, pools[0].SlotSize_)
          /\ pools[0].curSlot_ + 2 * pools[0].SlotSize_
                <= pools[0].firstBlock_ + pools[0].BlockSize_

\* The addresses on the free stack of pool i.
OnFreeStack(i) == {FreeChain(i)[k] : k \in 1..Len(FreeChain(i))}

\* C33: a step of pushFreeList at its compare-and-swap either succeeds, and
\* then the next field of the pushed slot holds the head the swap replaced,
\* the head becomes the pushed slot, every slot that was on the free stack is
\* still on it and the call returns; or it fails, and then the pool is
\* unchanged and the push reads the head again.
C33_PushLinksToReplacedHead ==
    [][\A t \in Live : (th[t].pc = "push_cas" /\ th'[t] # th[t]) =>
          IF th'[t].pc = "push_load"
          THEN pools' = pools /\ mem' = mem
          ELSE /\ th'[t].pc \notin PoolPcs
               /\ pools'[th[t].pool].freeList_ = th[t].slot
               /\ Loads(th[t].slot) = {pools[th[t].pool].freeList_}
               /\ OnFreeStack(th[t].pool) \subseteq OnFreeStack(th[t].pool)'
               /\ th[t].slot \in OnFreeStack(th[t].pool)']_vars

\* C34: a call of init(size) with size > 0 returns with the slot size equal to
\* size and with cursor, boundary, chunk-list head and free-stack head empty,
\* whatever they were, and leaves the chunk size and the mutex alone; init(0)
\* ends the run at its assertion with every field of the pool as it was.
C34_InitResetsOrAsserts ==
    [][lastUse' # lastUse =>
          /\ lastUse'.kind = "init"
          /\ IF lastUse'.size > 0
             THEN /\ ~crashed'
                  /\ pools'[0].SlotSize_ = lastUse'.size
                  /\ pools'[0].curSlot_ = NULL /\ pools'[0].lastSlot_ = NULL
                  /\ pools'[0].firstBlock_ = NULL /\ pools'[0].freeList_ = NULL
                  /\ pools'[0].BlockSize_ = pools[0].BlockSize_
                  /\ pools'[0].mutexForBlock_ = pools[0].mutexForBlock_
             ELSE crashed' /\ pools' = pools
          /\ mem' = mem /\ chunks' = chunks /\ held' = held]_vars

\* init has run a second time, on a pool that had a chunk and whose caller
\* still holds an address: the pool is empty again and has the new slot size.
C34_Witness ==
    /\ mode = "reinit" /\ ~crashed
    /\ lastUse.kind = "init" /\ lastUse.size > 0
    /\ pools[0].SlotSize_ = lastUse.size
    /\ chunks # {} /\ HeldAddrs # {}
    /\ pools[0].firstBlock_ = NULL /\ pools[0].curSlot_ = NULL
    /\ pools[0].lastSlot_ = NULL /\ pools[0].freeList_ = NULL
    /\ \A t \in Live : th[t].pc = "idle"

\* The addresses on the free stack of some pool of the table.
OnSomeFreeStack == UNION {OnFreeStack(i) : i \in DOMAIN pools}

\* C35: no slot is on a free stack while an object lives in it; the
\* destructor of deleteElement<T>(p) has run when pushFreeList starts on p, and
\* it runs while p is off every free stack; the constructor of newElement<T>
\* runs on a slot the caller has been given, which is on no free stack before or
\* after the constructor.
C35_ObjectLifeOutsideFreeStack ==
    /\ [](/\ objects \cap OnSomeFreeStack = {}
          /\ \A t \in Live :
                /\ th[t].pc \in {"dealloc", "push_load", "push_store", "push_cas"} =>
                      th[t].slot \notin objects
                /\ (th[t].pc = "placement" /\ th[t].slot # NULL) =>
                      /\ th[t].slot \notin OnSomeFreeStack
                      /\ th[t].slot \in {h.addr : h \in BagToSet(held[t])})
    /\ [][/\ ctors' # ctors =>
                \E t \in Live :
                   /\ th[t].pc = "placement" /\ objects' = objects \cup {th[t].slot}
                   /\ th[t].slot \notin OnSomeFreeStack /\ th[t].slot \notin OnSomeFreeStack'
          /\ dtors' # dtors =>
                \E t \in Live :
                   /\ th[t].pc = "idle" /\ th'[t].pc = "free"
                   /\ th'[t].slot \in objects /\ objects' = objects \ {th'[t].slot}
                   /\ th'[t].slot \notin OnSomeFreeStack /\ pools' = pools /\ mem' = mem]_vars

\* deleteElement<T>(p) has destroyed the object at p and pushed p, and a later
\* newElement<T> has popped p and constructed a new object in it.
C35_Witness ==
    /\ mode = "typed" /\ ~crashed
    /\ ctors >= 3 /\ dtors >= 1
    /\ lastAlloc.path = "pop" /\ lastAlloc.addr \in objects
    /\ Cardinality(objects) = 2
    /\ \A t \in Live : th[t].pc = "idle"

\* The address a lies in a chunk that pool i acquired.
CarvedBy(i, a) == \E c \in chunks : c.owner = i /\ c.base <= a /\ a < c.base + c.size

\* C36: a call of useMemory(size) or freeMemory(ptr, size), 1 <= size <= 512,
\* runs allocate() or deallocate() on the pool of index ceil(size / 8) - 1 and
\* changes no field of another pool; a chunk it acquires belongs to that pool;
\* so every address on the free stack of pool i lies in a chunk of pool i, and
\* every address a caller holds for size bytes lies in a chunk of the pool of
\* that size.
C36_CallsTouchOnePool ==
    /\ [](/\ \A i \in DOMAIN pools : \A a \in OnFreeStack(i) : CarvedBy(i, a)
          /\ \A t \in Live :
                /\ th[t].pc \in PoolPcs => th[t].pool = CeilDiv(th[t].size, 8) - 1
                /\ \A h \in BagToSet(held[t]) :
                      h.addr # NULL => CarvedBy(CeilDiv(h.size, 8) - 1, h.addr))
    /\ [][inited' = inited =>
             /\ \A i \in DOMAIN pools :
                   pools'[i] # pools[i] =>
                      \E t \in Live :
                         /\ th[t].pc \in PoolPcs /\ th[t].pool = i
                         /\ i = CeilDiv(th[t].size, 8) - 1
             /\ \A c \in chunks' \ chunks :
                   \E t \in Live : th[t].pc = "check" /\ c.owner = CeilDiv(th[t].size, 8) - 1]_vars

\* Two pools of the initialised table are in use: one has a slot on its free
\* stack, the other has a chunk and the caller holds a slot of it.
C36_Witness ==
    /\ mode = "router" /\ inited /\ ~crashed
    /\ sizes = {8, 9}
    /\ pools[0].freeList_ # NULL /\ CarvedBy(0, pools[0].freeList_)
    /\ pools[1].firstBlock_ # NULL /\ pools[1].freeList_ = NULL
    /\ \E h \in BagToSet(held[1]) : h.size = 9 /\ CarvedBy(1, h.addr)
    /\ \A t \in Live : th[t].pc = "idle"

\* The slots the one pool of the run has carved from its chunks so far: those
\* below the cursor in the active chunk, all slots of the chunks before it.
Carved ==
    UNION {IF c.base = pools[0].firstBlock_
           THEN {a \in SlotsOf(c, pools[0].SlotSize_) : a < pools[0].curSlot_}
           ELSE SlotsOf(c, pools[0].SlotSize_) : c \in chunks}

\* The slots a running call has in its hands: carved and about to be returned,
\* or given to deallocate() and not pushed yet.
InTransit ==
    {th[t].temp : t \in {u \in Live : th[u].pc = "unlock"}}
        \cup {th[t].slot : t \in {u \in Live : th[u].pc \in {"push_load", "push_store", "push_cas"}}}

\* C37: in a single-threaded run on a pool whose slot size is a multiple of 8,
\* every slot carved so far is held by the caller, or on the free stack, or in
\* the hands of the running call, and only one of the three; no slot is held
\* twice or twice on the free stack; between calls the number of slots carved
\* is the number held plus the length of the free stack.
C37_CarvedIsHeldOrFree ==
    (/\ mode = "life" /\ ~crashed /\ ~Destroyed
     /\ pools[0].SlotSize_ > 0 /\ pools[0].SlotSize_ % SizeofSlot = 0)
        => LET chain == FreeChain(0)
               free == {chain[k] : k \in 1..Len(chain)}
               mine == HeldAddrs
               busy == InTransit
               carved == Carved
           IN  /\ carved = mine \cup free \cup busy
               /\ mine \cap free = {} /\ mine \cap busy = {} /\ free \cap busy = {}
               /\ Cardinality(free) = Len(chain)
               /\ \A t \in Live : \A h \in BagToSet(held[t]) : CopiesIn(h, held[t]) = 1
               /\ (\A t \in Live : th[t].pc = "idle") =>
                     /\ busy = {}
                     /\ Cardinality(carved) = Cardinality(mine) + Len(chain)

\* Between two calls, three slots have been carved from two chunks; the caller
\* holds one of them and two are on the free stack.
C37_Witness ==
    /\ mode = "life" /\ ~crashed /\ ~Destroyed
    /\ pools[0].SlotSize_ = 8
    /\ \A t \in Live : th[t].pc = "idle"
    /\ Cardinality(chunks) = 2
    /\ Cardinality(Carved) = 3 /\ Cardinality(HeldAddrs) = 1 /\ Len(FreeChain(0)) = 2
    /\ lastAlloc.path = "pop"

\* The list l is as its operations mean to leave it: the next fields lead from
\* head.next back to the sentinel, tail is the last node on the way (the
\* sentinel when there is none) and _size counts the nodes.
ListOk(L, l) ==
    LET chain == ChainOf(L, l)
        last == IF chain = <<>> THEN l ELSE chain[Len(chain)]
    IN  /\ L.next[last] = l
        /\ L.tail[l] = last
        /\ L.size[l] = Len(chain)
        /\ \A k \in 1..Len(chain) : chain[k] \in L.live

\* C38: after every sequence of push_back, push_front, pop_front, _pop_back,
\* insert_after and erase_after, no operation has had undefined behaviour, tail
\* is the last node of the list (the sentinel when the list is empty), size()
\* is the number of nodes reachable from head, and a push_back puts its node
\* behind all the others.
C38_TailIsLastNode ==
    /\ [](/\ ~lists.ub
          /\ \A l \in lists.cons : ListOk(lists, l))
    /\ [][(lists' # lists /\ lists'.op.name = "push_back") =>
             \E n \in HeapNodes \ lists.live :
                ChainOf(lists', lists'.op.a) = ChainOf(lists, lists'.op.a) \o <<n>>]_vars

\* C39: a move construction or move assignment from another list leaves in the
\* destination the nodes the source had, in their order, with the last of them
\* linked to the destination's sentinel, the destination's tail on it and its
\* size that of the source; an empty source leaves the destination empty with
\* head.next and tail at its own sentinel; the source is empty afterwards with
\* size 0 and head.next and tail at its own sentinel.
C39_MoveTransfersNodes ==
    [][(/\ lists' # lists
        /\ lists'.op.name \in {"move_ctor", "move_assign"}
        /\ lists'.op.a # lists'.op.b
        /\ ListOk(lists, lists'.op.b)
        /\ lists'.op.name = "move_assign" => ListOk(lists, lists'.op.a))
          => LET d == lists'.op.a
                 s == lists'.op.b
             IN  /\ ~lists'.ub
                 /\ ChainOf(lists', d) = ChainOf(lists, s)
                 /\ ListOk(lists', d)
                 /\ ListOk(lists', s)
                 /\ lists'.size[s] = 0 /\ lists'.next[s] = s /\ lists'.tail[s] = s]_vars

====
